---- MODULE Spec2Model ----
(***************************************************************************)
(* A model of the cdocx package tree and part-management subsystem:        *)
(* DocxTree / DocxTreeNode (src/src/cdocx_tree.cpp), DocumentImpl          *)
(* (src/src/cdocx_impl.cpp) and the Document facade                        *)
(* (src/src/cdocx_document.cpp).                                           *)
(*                                                                         *)
(* Strings that the code inspects are kept structured:                     *)
(*  - a path "a/b/c.xml" is the tuple of its '/'-separated segments, the   *)
(*    empty string is <<>>; "/" + p is p with an empty first segment;      *)
(*  - a segment (a file name) is [stem, ctr, ext]: stem, then "_<n>" for   *)
(*    each n of ctr, then "." ext when ext is not empty;                   *)
(*  - a relationship id is [pre, rest]: the prefix "rId" (or the whole     *)
(*    string when it does not start with "rId") and the characters after   *)
(*    it;                                                                  *)
(*  - the bytes of a file are [fmt, doc, tok]: fmt "raw" is XML as some    *)
(*    other producer wrote it, "canon" is XML as pugixml prints it, "bad"  *)
(*    is text that does not parse, "bin" is binary content named by tok,   *)
(*    "empty" is a file of zero bytes.                                     *)
(***************************************************************************)
EXTENDS Integers, Sequences, FiniteSets, TLC

VARIABLES
    doc,      \* the DocumentImpl of one Document object (a record of its fields)
    fs,       \* the filesystem: file name -> file
    last,     \* observer: the last call on the Document and what it returned
    hist,     \* observer: what earlier calls of the session did
    steps,    \* observer: number of calls made so far
    crashed   \* the process was aborted (trap on undefined behaviour)

vars == <<doc, fs, last, hist, steps, crashed>>

\* F applied to the value of v, computed once
With(v, F(_)) == CHOOSE r \in {F(x) : x \in {v}} : TRUE

MapSeq(s, F(_)) == With(s, LAMBDA t : [k \in 1..Len(t) |-> F(t[k])])

(***************************************************************************)
(* Names, paths                                                            *)
(***************************************************************************)
Nm(s, e) == [stem |-> s, ctr |-> <<>>, ext |-> e]

EmptyNm == Nm("", "")

IsEmptyName(n) == n.stem = "" /\ n.ctr = <<>> /\ n.ext = ""

\* "/" + path
Slash(path) == <<EmptyNm>> \o path

\* the '/'-separated segments of a path string ("" has one, empty, segment)
Segments(path) == IF path = <<>> THEN <<EmptyNm>> ELSE path

\* entry_path.size() > 4 && entry_path.substr(size - 4) == ".xml"  (ext = "xml"),
\* entry_path.size() > 5 && entry_path.substr(size - 5) == ".rels" (ext = "rels"):
\* the path ends in "." ext and is longer than that suffix
EndsWithDotExt(path, ext) ==
    /\ path # <<>>
    /\ path[Len(path)].ext = ext
    /\ ~(Len(path) = 1 /\ path[1].stem = "" /\ path[1].ctr = <<>>)

\* path.substr(0, 11) == "word/media/"
StartsWithWordMedia(path) ==
    /\ Len(path) >= 3
    /\ path[1] = Nm("word", "")
    /\ path[2] = Nm("media", "")

\* ::tolower over the extensions the model uses
ToLower(s) ==
    CASE s = "JPG" -> "jpg"
      [] s = "PNG" -> "png"
      [] OTHER -> s

(***************************************************************************)
(* XML documents and bytes                                                 *)
(***************************************************************************)
\* a pugi::xml_document: its document element and that element's children
XmlDoc(root, kids) == [root |-> root, kids |-> kids]

\* a null std::shared_ptr<pugi::xml_document>
NullDoc == XmlDoc("<null>", <<>>)

\* a pugi::xml_document with no child (fresh, or after reset())
EmptyDoc == XmlDoc("", <<>>)

El(tag, a) == [tag |-> tag, a |-> a]

Bytes(fmt, d, tok) == [fmt |-> fmt, doc |-> d, tok |-> tok]

NoBytes == Bytes("empty", EmptyDoc, "")

RawXml(d) == Bytes("raw", d, "")

BadXml(tok) == Bytes("bad", EmptyDoc, tok)

Bin(tok) == Bytes("bin", EmptyDoc, tok)

\* pugi::xml_document::load_buffer: succeeds on well-formed XML that has a
\* document element
load_buffer_ok(data) == data.fmt \in {"raw", "canon"} /\ data.doc.root # ""

load_buffer(data) == data.doc

\* pugi::xml_document::print into an xml_string_writer: a document with no
\* child prints as the empty string
print(d) == IF d.root = "" THEN NoBytes ELSE Bytes("canon", d, "")

\* the children of the document element named tag, in document order
\* (node.child(tag), then next_sibling(tag))
RECURSIVE ChildrenNamed(_, _)
ChildrenNamed(kids, tag) ==
    IF kids = <<>> THEN <<>>
    ELSE (IF Head(kids).tag = tag THEN <<Head(kids)>> ELSE <<>>)
         \o ChildrenNamed(Tail(kids), tag)

\* xml_doc->child(root).child(tag)...: the children named tag of the document
\* element, when that element is named root
ChildrenOf(d, root, tag) ==
    IF d.root = root THEN ChildrenNamed(d.kids, tag) ELSE <<>>

(***************************************************************************)
(* DocxTreeNode, DocxTree                                                  *)
(***************************************************************************)
DocxTreeNode(n, t, p) ==
    [name |-> n, full_path |-> <<>>, type |-> t, parent |-> p,
     children |-> <<>>, xml_doc |-> NullDoc, binary_data |-> NoBytes,
     content_type |-> "", is_modified |-> FALSE, is_new |-> FALSE,
     is_deleted |-> FALSE]

is_directory(node) == node.type = "Directory" \/ node.type = "Root"

is_file(node) == ~is_directory(node)

NoPathMap == [p \in {} |-> 0]

\* DocxTree::DocxTree: the root is node 1; 0 is the null pointer
DocxTree == [nodes |-> <<DocxTreeNode(EmptyNm, "Root", 0)>>, path_map_ |-> NoPathMap]

\* DocxTree::clear
clear(T) == [nodes |-> <<[T.nodes[1] EXCEPT !.children = <<>>]>>,
             path_map_ |-> NoPathMap]

\* DocxTreeNode::add_directory / add_file: the new node gets the next index
AddChild(T, parent, child_name, t) ==
    LET i == Len(T.nodes) + 1
        pp == T.nodes[parent].full_path
        child == [DocxTreeNode(child_name, t, parent) EXCEPT
                    !.full_path = IF pp = <<>> THEN <<child_name>>
                                  ELSE pp \o <<child_name>>]
    IN [T |-> [T EXCEPT !.nodes = Append([T.nodes EXCEPT
                            ![parent].children = Append(@, i)], child)],
        node |-> i]

add_directory(T, parent, dir_name) == AddChild(T, parent, dir_name, "Directory")

add_file(T, parent, file_name, file_type) == AddChild(T, parent, file_name, file_type)

\* DocxTreeNode::find_child: the first child with that name, in insertion order
RECURSIVE FirstNamed(_, _, _)
FirstNamed(T, kids, child_name) ==
    IF kids = <<>> THEN 0
    ELSE IF T.nodes[Head(kids)].name = child_name THEN Head(kids)
    ELSE FirstNamed(T, Tail(kids), child_name)

find_child(T, parent, child_name) ==
    FirstNamed(T, T.nodes[parent].children, child_name)

\* DocxTree::find_node
find_node(T, path) ==
    IF path \in DOMAIN T.path_map_ THEN T.path_map_[path] ELSE 0

\* the assignment of a node's path, had the index not been told of it
SetPath_unindexed(T, path, i) == [T EXCEPT !.nodes[i].full_path = path]

SetPath(T, path, i) ==
    [T EXCEPT !.nodes[i].full_path = path,
              !.path_map_ = [p \in DOMAIN T.path_map_ \cup {path} |->
                                IF p = path THEN i ELSE T.path_map_[p]]]

\* the while loop of find_or_create_node over the directory segments
RECURSIVE WalkDirs(_, _, _, _)
WalkDirs(T, current, current_path, dirs) ==
    IF dirs = <<>> THEN [T |-> T, node |-> current]
    ELSE LET dir_name == Head(dirs) IN
         IF IsEmptyName(dir_name)
         THEN WalkDirs(T, current, current_path, Tail(dirs))
         ELSE LET cp == IF current_path = <<>> THEN <<dir_name>>
                        ELSE current_path \o <<dir_name>>
                  child == find_child(T, current, dir_name)
              IN IF child = 0
                 THEN With(add_directory(T, current, dir_name), LAMBDA r :
                        With(SetPath(r.T, cp, r.node), LAMBDA T2 :
                          WalkDirs(T2, r.node, cp, Tail(dirs))))
                 ELSE WalkDirs(T, child, cp, Tail(dirs))

\* DocxTree::find_or_create_node
find_or_create_node(T, path, type) ==
    LET existing == find_node(T, path) IN
    IF existing # 0 THEN [T |-> T, node |-> existing]
    ELSE LET segs == Segments(path)
             file_name == segs[Len(segs)]
         IN With(WalkDirs(T, 1, <<>>, SubSeq(segs, 1, Len(segs) - 1)), LAMBDA w :
              IF ~IsEmptyName(file_name)
              THEN With(add_file(w.T, w.node, file_name, type), LAMBDA r :
                     [T |-> SetPath(r.T, path, r.node), node |-> r.node])
              ELSE w)

\* EntryType, had add_zip_entry not taken ".rels" entries for XML
EntryType_xml_only(entry_path) ==
    IF EndsWithDotExt(entry_path, "xml") THEN "XmlFile"
    ELSE IF StartsWithWordMedia(entry_path) THEN "MediaFile"
    ELSE "BinaryFile"

\* the node type add_zip_entry derives from the entry path
EntryType(entry_path) ==
    IF EndsWithDotExt(entry_path, "xml") THEN "XmlFile"
    ELSE IF EndsWithDotExt(entry_path, "rels") THEN "XmlFile"
    ELSE IF StartsWithWordMedia(entry_path) THEN "MediaFile"
    ELSE "BinaryFile"

\* add_zip_entry, had it not kept the bytes of an entry that fails to parse
add_zip_entry_drops_bytes(T, entry_path, data) ==
    LET type == EntryType(entry_path)
    IN With(find_or_create_node(T, entry_path, type), LAMBDA r :
         IF type = "XmlFile"
         THEN IF load_buffer_ok(data)
              THEN [r.T EXCEPT !.nodes[r.node].xml_doc = load_buffer(data),
                               !.nodes[r.node].binary_data = data]
              ELSE [r.T EXCEPT !.nodes[r.node].type = "BinaryFile"]
         ELSE [r.T EXCEPT !.nodes[r.node].binary_data = data])

\* DocxTree::add_zip_entry
add_zip_entry(T, entry_path, data) ==
    LET type == EntryType(entry_path)
    IN With(find_or_create_node(T, entry_path, type), LAMBDA r :
         IF type = "XmlFile"
         THEN IF load_buffer_ok(data)
              THEN [r.T EXCEPT !.nodes[r.node].xml_doc = load_buffer(data),
                               !.nodes[r.node].binary_data = data]
              ELSE [r.T EXCEPT !.nodes[r.node].type = "BinaryFile",
                               !.nodes[r.node].binary_data = data]
         ELSE [r.T EXCEPT !.nodes[r.node].binary_data = data])

\* DocxTree::add_media_file
add_media_file(T, path, data, content_type) ==
    With(find_or_create_node(T, path, "MediaFile"), LAMBDA r :
      [T |-> [r.T EXCEPT !.nodes[r.node].binary_data = data,
                         !.nodes[r.node].content_type = content_type],
       node |-> r.node])

\* DocxTree::add_xml_file
add_xml_file(T, path, d) ==
    With(find_or_create_node(T, path, "XmlFile"), LAMBDA r :
      [T |-> [r.T EXCEPT !.nodes[r.node].xml_doc = d], node |-> r.node])

\* DocxTree::remove_node
remove_node(T, path) ==
    LET node == find_node(T, path)
    IN IF node = 0 THEN [T |-> T, ok |-> FALSE]
       ELSE [T |-> [T EXCEPT !.nodes[node].is_deleted = TRUE], ok |-> TRUE]

\* DocxTree::iterate_all: the nodes in the order the stack visits them
RECURSIVE VisitStack(_, _)
VisitStack(T, stack) ==
    IF stack = <<>> THEN <<>>
    ELSE LET node == stack[Len(stack)]
         IN With(SubSeq(stack, 1, Len(stack) - 1) \o T.nodes[node].children,
                 LAMBDA rest : <<node>> \o VisitStack(T, rest))

iterate_all(T) == VisitStack(T, <<1>>)

\* DocxTree::iterate_files
iterate_files(T) == SelectSeq(iterate_all(T), LAMBDA i : is_file(T.nodes[i]))

\* DocxTree::get_all_xml_files
get_all_xml_files(T) ==
    SelectSeq(iterate_files(T), LAMBDA i : T.nodes[i].type = "XmlFile")

\* DocxTree::rebuild_path_map
rebuild_path_map(T) ==
    With(iterate_all(T), LAMBDA order :
      LET keyed == {i \in 1..Len(T.nodes) : T.nodes[i].full_path # <<>>}
          \* a later visit overwrites an earlier one under the same key
          LastAt(p) == LET hits == {k \in 1..Len(order) :
                                      T.nodes[order[k]].full_path = p}
                       IN order[CHOOSE k \in hits : \A h \in hits : h <= k]
      IN [T EXCEPT !.path_map_ =
              [p \in {T.nodes[i].full_path : i \in keyed} |-> LastAt(p)]])

(***************************************************************************)
(* Well-known part paths and strings                                       *)
(***************************************************************************)
CONTENT_TYPES == <<Nm("[Content_Types]", "xml")>>

DOCUMENT_XML == <<Nm("word", ""), Nm("document", "xml")>>

DOCUMENT_RELS == <<Nm("word", ""), Nm("_rels", ""), Nm("document.xml", "rels")>>

PACKAGE_RELS == <<Nm("_rels", ""), Nm("", "rels")>>

STYLES_XML == <<Nm("word", ""), Nm("styles", "xml")>>

SETTINGS_XML == <<Nm("word", ""), Nm("settings", "xml")>>

FONT_TABLE_XML == <<Nm("word", ""), Nm("fontTable", "xml")>>

THEME_XML == <<Nm("word", ""), Nm("theme", ""), Nm("theme1", "xml")>>

CORE_XML == <<Nm("docProps", ""), Nm("core", "xml")>>

APP_XML == <<Nm("docProps", ""), Nm("app", "xml")>>

CUSTOM_XML == <<Nm("docProps", ""), Nm("custom", "xml")>>

\* "word/media/" + filename
MediaPath(filename) == <<Nm("word", ""), Nm("media", ""), filename>>

\* "media/" + name
MediaTarget(name) == <<Nm("media", ""), name>>

CT_RELS == "application/vnd.openxmlformats-package.relationships+xml"

CT_XML == "application/xml"

CT_DOCUMENT == "application/vnd.openxmlformats-officedocument.wordprocessingml.document.main+xml"

CT_STYLES == "application/vnd.openxmlformats-officedocument.wordprocessingml.styles+xml"

CT_SETTINGS == "application/vnd.openxmlformats-officedocument.wordprocessingml.settings+xml"

REL_IMAGE == "http://schemas.openxmlformats.org/officeDocument/2006/relationships/image"

(***************************************************************************)
(* int, std::stoi, std::to_string                                          *)
(***************************************************************************)
INT_MAX == 2147483647

INT_MIN == -2147483647 - 1

DigitChars == <<"0", "1", "2", "3", "4", "5", "6", "7", "8", "9">>

IsDigit(c) == \E d \in 1..10 : DigitChars[d] = c

DigitVal(c) == (CHOOSE d \in 1..10 : DigitChars[d] = c) - 1

\* the decimal digits of n >= 0
RECURSIVE DigitsOf(_)
DigitsOf(n) ==
    IF n < 10 THEN <<DigitChars[n + 1]>>
    ELSE DigitsOf(n \div 10) \o <<DigitChars[(n % 10) + 1]>>

\* std::to_string(int)
to_string(n) ==
    IF n >= 0 THEN DigitsOf(n)
    ELSE IF n = INT_MIN
         THEN <<"-">> \o DigitsOf(INT_MAX \div 10) \o <<DigitChars[(INT_MAX % 10) + 2]>>
         ELSE <<"-">> \o DigitsOf(-n)

\* the magnitude of a digit string: v when it is at most INT_MAX, p1 when it
\* is INT_MAX + 1, over when it is larger
RECURSIVE Magnitude(_, _)
Magnitude(chars, acc) ==
    IF chars = <<>> \/ ~IsDigit(Head(chars)) THEN acc
    ELSE LET d == DigitVal(Head(chars)) IN
         With(IF acc.over \/ acc.p1 THEN [acc EXCEPT !.over = TRUE, !.p1 = FALSE]
              ELSE IF acc.v <= (INT_MAX - d) \div 10
                   THEN [acc EXCEPT !.v = acc.v * 10 + d, !.n = acc.n + 1]
              ELSE IF acc.v = INT_MAX \div 10 /\ d = (INT_MAX % 10) + 1
                   THEN [acc EXCEPT !.p1 = TRUE, !.n = acc.n + 1]
              ELSE [acc EXCEPT !.over = TRUE],
              LAMBDA next : Magnitude(Tail(chars), next))

RECURSIVE SkipSpaces(_)
SkipSpaces(chars) ==
    IF chars # <<>> /\ Head(chars) = " " THEN SkipSpaces(Tail(chars)) ELSE chars

\* std::stoi: leading white space, an optional sign, then digits up to the
\* first other character; ok is FALSE where stoi throws (no digit:
\* invalid_argument; outside int: out_of_range)
stoi(chars) ==
    LET s == SkipSpaces(chars)
        neg == s # <<>> /\ Head(s) = "-"
        signed == s # <<>> /\ Head(s) \in {"-", "+"}
    IN With(Magnitude(IF signed THEN Tail(s) ELSE s,
                      [v |-> 0, n |-> 0, p1 |-> FALSE, over |-> FALSE]), LAMBDA m :
         IF m.n = 0 /\ ~m.over THEN [ok |-> FALSE, val |-> 0]
         ELSE IF m.over THEN [ok |-> FALSE, val |-> 0]
         ELSE IF m.p1 THEN (IF neg THEN [ok |-> TRUE, val |-> INT_MIN]
                            ELSE [ok |-> FALSE, val |-> 0])
         ELSE [ok |-> TRUE, val |-> IF neg THEN -m.v ELSE m.v])

\* a relationship id string
Id(pre, rest) == [pre |-> pre, rest |-> rest]

\* "rId" + std::to_string(n)
RId(n) == Id("rId", to_string(n))

NoId == Id("", <<>>)

(***************************************************************************)
(* Relationship, ContentType                                               *)
(***************************************************************************)
Relationship(i, t, tgt, tm) == [id |-> i, type |-> t, target |-> tgt, target_mode |-> tm]

DefaultType(ext, ct) ==
    [extension |-> ext, part_name |-> <<>>, content_type |-> ct, is_default |-> TRUE]

OverrideType(part, ct) ==
    [extension |-> "", part_name |-> part, content_type |-> ct, is_default |-> FALSE]

\* the XML elements of [Content_Types].xml and of a .rels file
DefaultEl(ext, ct) == El("Default", <<ext, ct>>)

OverrideEl(part, ct) == El("Override", <<part, ct>>)

RelationshipEl(r) == El("Relationship", <<r.id, r.type, r.target, r.target_mode>>)

(***************************************************************************)
(* The filesystem and ZIP archives                                         *)
(***************************************************************************)
File(kind, entries, data) == [kind |-> kind, entries |-> entries, data |-> data]

NoFile == File("absent", <<>>, NoBytes)

\* a ZIP archive: its entries in central-directory order
ZipFile(entries) == File("zip", entries, NoBytes)

\* any other file
DataFile(data) == File("data", <<>>, data)

Entry(name, data) == [name |-> name, data |-> data]

\* std::filesystem::exists
exists(F, path) == path \in DOMAIN F /\ F[path].kind # "absent"

\* output_path + ".tmp"
TempPath(output_path) == Nm(output_path.stem \o "." \o output_path.ext, "tmp")

SetKey(f, k, v) == [x \in DOMAIN f \cup {k} |-> IF x = k THEN v ELSE f[x]]

(***************************************************************************)
(* DocumentImpl                                                            *)
(***************************************************************************)
NoRelationships == [p \in {} |-> <<>>]

\* DocumentImpl::DocumentImpl, with Document::Document(): an empty file path
\* (EmptyNm) and a null zip handle (EmptyNm)
DocumentImpl ==
    [filepath_ |-> EmptyNm, is_open_ |-> FALSE, tree_ |-> DocxTree,
     xml_parts_cache_ |-> NoPathMap, media_files_cache_ |-> NoPathMap,
     relationships_ |-> NoRelationships, modified_parts_ |-> {},
     zip_handle_ |-> EmptyNm, zip_dirty_ |-> FALSE, content_types_ |-> <<>>]

\* DocumentImpl::open_zip: zip_open(path, 0, 'r') returns a handle for a file
\* that is a ZIP archive
open_zip_ok(F, path) == path \in DOMAIN F /\ F[path].kind = "zip"

\* DocumentImpl::close_zip
close_zip(D) == [D EXCEPT !.zip_handle_ = EmptyNm]

\* DocumentImpl::load_zip_entry_to_tree over the entries, in index order; an
\* entry with an empty name, a name ending in '/', or no data is skipped
RECURSIVE LoadEntries(_, _)
LoadEntries(T, entries) ==
    IF entries = <<>> THEN T
    ELSE LET e == Head(entries)
             skip == \/ e.name = <<>>
                     \/ IsEmptyName(e.name[Len(e.name)])
                     \/ e.data.fmt = "empty"
         IN With(IF skip THEN T ELSE add_zip_entry(T, e.name, e.data),
                 LAMBDA T2 : LoadEntries(T2, Tail(entries)))

\* DocumentImpl::load_tree_from_zip (called with an open handle)
load_tree_from_zip(D, F) ==
    With(LoadEntries(D.tree_, F[D.zip_handle_].entries), LAMBDA T :
      [D EXCEPT !.tree_ = rebuild_path_map(T)])

\* DocumentImpl::build_caches_from_tree
build_caches_from_tree(D) ==
    With(iterate_files(D.tree_), LAMBDA order :
      LET T == D.tree_
          xml == {k \in DOMAIN order : /\ T.nodes[order[k]].type = "XmlFile"
                                       /\ T.nodes[order[k]].xml_doc # NullDoc}
          media == {k \in DOMAIN order \ xml : T.nodes[order[k]].type = "MediaFile"}
          \* a later visit overwrites an earlier one under the same key
          Cache(visits) ==
              [p \in {T.nodes[order[k]].full_path : k \in visits} |->
                  order[CHOOSE k \in visits :
                          /\ T.nodes[order[k]].full_path = p
                          /\ \A h \in visits :
                                T.nodes[order[h]].full_path = p => h <= k]]
      IN [D EXCEPT !.xml_parts_cache_ = Cache(xml),
                   !.media_files_cache_ = Cache(media)])

\* DocumentImpl::load_content_types
load_content_types(D) ==
    LET ct_node == find_node(D.tree_, CONTENT_TYPES) IN
    IF ct_node = 0 \/ D.tree_.nodes[ct_node].xml_doc = NullDoc THEN D
    ELSE LET d == D.tree_.nodes[ct_node].xml_doc
             defs == MapSeq(ChildrenOf(d, "Types", "Default"),
                            LAMBDA e : DefaultType(e.a[1], e.a[2]))
             ovrs == MapSeq(ChildrenOf(d, "Types", "Override"),
                            LAMBDA e : OverrideType(e.a[1], e.a[2]))
         IN [D EXCEPT !.content_types_ = defs \o ovrs]

\* DocumentImpl::parse_relationships
parse_relationships(D, rels_path) ==
    LET node == find_node(D.tree_, rels_path) IN
    IF node = 0 \/ D.tree_.nodes[node].xml_doc = NullDoc THEN D
    ELSE LET rels == MapSeq(ChildrenOf(D.tree_.nodes[node].xml_doc,
                                       "Relationships", "Relationship"),
                            LAMBDA e : Relationship(e.a[1], e.a[2], e.a[3], e.a[4]))
         IN [D EXCEPT !.relationships_ = SetKey(D.relationships_, rels_path, rels)]

\* full_path.find(".rels") != npos, over the names the model uses
ContainsDotRels(path) == \E k \in DOMAIN path : path[k].ext = "rels"

RECURSIVE ParseEach(_, _)
ParseEach(D, files) ==
    IF files = <<>> THEN D
    ELSE LET path == D.tree_.nodes[Head(files)].full_path
         IN With(IF ContainsDotRels(path) THEN parse_relationships(D, path) ELSE D,
                 LAMBDA D2 : ParseEach(D2, Tail(files)))

\* DocumentImpl::load_all_relationships
load_all_relationships(D) ==
    With(get_all_xml_files(D.tree_), LAMBDA files : ParseEach(D, files))

\* DocumentImpl::get_content_type
get_content_type(D, extension) ==
    LET hits == {k \in DOMAIN D.content_types_ :
                    /\ D.content_types_[k].is_default
                    /\ ToLower(D.content_types_[k].extension) = ToLower(extension)}
    IN IF hits = {} THEN "application/octet-stream"
       ELSE D.content_types_[CHOOSE k \in hits : \A h \in hits : k <= h].content_type

HasOverride(D, part_name) ==
    \E k \in DOMAIN D.content_types_ :
        ~D.content_types_[k].is_default /\ D.content_types_[k].part_name = part_name

\* DocumentImpl::add_content_type_override
add_content_type_override(D, part_name, content_type) ==
    IF HasOverride(D, part_name) THEN D
    ELSE [D EXCEPT !.content_types_ = Append(@, OverrideType(part_name, content_type))]

\* DocumentImpl::get_mime_type
get_mime_type(filename) ==
    LET ext == ToLower(filename.ext) IN
    IF ext = "" THEN "application/octet-stream"
    ELSE IF ext = "png" THEN "image/png"
    ELSE IF ext = "jpg" \/ ext = "jpeg" THEN "image/jpeg"
    ELSE IF ext = "gif" THEN "image/gif"
    ELSE IF ext = "bmp" THEN "image/bmp"
    ELSE IF ext = "tiff" \/ ext = "tif" THEN "image/tiff"
    ELSE IF ext = "webp" THEN "image/webp"
    ELSE IF ext = "svg" THEN "image/svg+xml"
    ELSE "application/octet-stream"

\* full_path.find(...) != npos for the literals of update_content_types_xml,
\* over the names the model uses
ContainsWordDocumentXml(path) ==
    \E k \in 1..(Len(path) - 1) :
        path[k] = Nm("word", "") /\ path[k + 1].stem = "document"
                                 /\ path[k + 1].ext = "xml"

ContainsName(path, stem, ext) ==
    \E k \in DOMAIN path : path[k].stem = stem /\ path[k].ext = ext

ContainsRels(path) ==
    \E k \in DOMAIN path : path[k].ext = "rels" \/ path[k].stem = "_rels"

\* the content type update_content_types_xml guesses for a node
GuessedContentType(node) ==
    IF ContainsWordDocumentXml(node.full_path) THEN CT_DOCUMENT
    ELSE IF ContainsName(node.full_path, "styles", "xml") THEN CT_STYLES
    ELSE IF ContainsName(node.full_path, "settings", "xml") THEN CT_SETTINGS
    ELSE IF ContainsRels(node.full_path) THEN CT_RELS
    ELSE IF node.type = "MediaFile"
         THEN (IF node.content_type = "" THEN "image/png" ELSE node.content_type)
    ELSE CT_XML

\* the first Default of each extension, in order
RECURSIVE FirstDefaults(_, _)
FirstDefaults(cts, added_extensions) ==
    IF cts = <<>> THEN <<>>
    ELSE LET c == Head(cts) IN
         IF c.is_default /\ c.extension \notin added_extensions
         THEN <<DefaultEl(c.extension, c.content_type)>>
              \o FirstDefaults(Tail(cts), added_extensions \cup {c.extension})
         ELSE FirstDefaults(Tail(cts), added_extensions)

\* DocumentImpl::update_content_types_xml
update_content_types_xml(D) ==
    With(find_or_create_node(D.tree_, CONTENT_TYPES, "XmlFile"), LAMBDA r :
      LET T == r.T
          overrides == MapSeq(SelectSeq(D.content_types_, LAMBDA c : ~c.is_default),
                              LAMBDA c : OverrideEl(c.part_name, c.content_type))
          missing == SelectSeq(iterate_files(T), LAMBDA i :
                          /\ T.nodes[i].full_path # CONTENT_TYPES
                          /\ ~HasOverride(D, Slash(T.nodes[i].full_path)))
          guessed == MapSeq(missing, LAMBDA i :
                          OverrideEl(Slash(T.nodes[i].full_path),
                                     GuessedContentType(T.nodes[i])))
      IN [D EXCEPT !.tree_ = [T EXCEPT !.nodes[r.node].xml_doc =
              XmlDoc("Types", FirstDefaults(D.content_types_, {}) \o overrides \o guessed)]])

\* the largest N over the ids "rId<N>" of a table (0 when there is none)
RECURSIVE MaxId(_, _)
MaxId(rels, max_id) ==
    IF rels = <<>> THEN max_id
    ELSE LET id == Head(rels).id
             n == stoi(id.rest)
         IN With(IF id.pre = "rId" /\ id.rest # <<>> /\ n.ok /\ n.val > max_id
                 THEN n.val ELSE max_id,
                 LAMBDA m : MaxId(Tail(rels), m))

RelsOf(D, rels_path) ==
    IF rels_path \in DOMAIN D.relationships_ THEN D.relationships_[rels_path] ELSE <<>>

\* DocumentImpl::add_relationship, given the value of max_id + 1
add_relationship_as(D, rels_path, type, target, target_mode, next_id) ==
    LET new_id == RId(next_id)
    IN [doc |-> [D EXCEPT
                   !.relationships_ = SetKey(D.relationships_, rels_path,
                        Append(RelsOf(D, rels_path),
                               Relationship(new_id, type, target, target_mode))),
                   !.modified_parts_ = @ \cup {rels_path}],
        new_id |-> new_id]

\* max_id + 1 overflows int: undefined behaviour
add_relationship_overflows(D, rels_path) == MaxId(RelsOf(D, rels_path), 0) = INT_MAX

\* DocumentImpl::add_relationship where max_id + 1 does not overflow
add_relationship(D, rels_path, type, target, target_mode) ==
    add_relationship_as(D, rels_path, type, target, target_mode,
                        MaxId(RelsOf(D, rels_path), 0) + 1)

\* the index of the first relationship that satisfies P (0 when there is none)
FirstRel(rels, P(_)) ==
    LET hits == {k \in DOMAIN rels : P(rels[k])}
    IN IF hits = {} THEN 0 ELSE CHOOSE k \in hits : \A h \in hits : k <= h

RemoveAt(s, k) == SubSeq(s, 1, k - 1) \o SubSeq(s, k + 1, Len(s))

\* DocumentImpl::remove_relationship
remove_relationship(D, rels_path, rel_id) ==
    IF rels_path \notin DOMAIN D.relationships_ THEN D
    ELSE LET k == FirstRel(D.relationships_[rels_path], LAMBDA r : r.id = rel_id)
         IN IF k = 0 THEN D
            ELSE [D EXCEPT !.relationships_[rels_path] = RemoveAt(@, k),
                           !.modified_parts_ = @ \cup {rels_path}]

\* DocumentImpl::find_relationship_id
find_relationship_id(D, rels_path, target) ==
    IF rels_path \notin DOMAIN D.relationships_ THEN NoId
    ELSE LET k == FirstRel(D.relationships_[rels_path], LAMBDA r : r.target = target)
         IN IF k = 0 THEN NoId ELSE D.relationships_[rels_path][k].id

\* update_relationships_xml, had it left the XML of the node as it was
update_relationships_xml_stale(D, rels_path) ==
    IF rels_path \notin DOMAIN D.relationships_ THEN D
    ELSE With(find_or_create_node(D.tree_, rels_path, "XmlFile"), LAMBDA r :
           [D EXCEPT !.tree_ = r.T])

\* DocumentImpl::update_relationships_xml
update_relationships_xml(D, rels_path) ==
    IF rels_path \notin DOMAIN D.relationships_ THEN D
    ELSE With(find_or_create_node(D.tree_, rels_path, "XmlFile"), LAMBDA r :
           [D EXCEPT !.tree_ = [r.T EXCEPT !.nodes[r.node].xml_doc =
               XmlDoc("Relationships",
                      MapSeq(D.relationships_[rels_path], RelationshipEl))]])

(***************************************************************************)
(* Saving                                                                  *)
(***************************************************************************)
\* write_tree_node, had it printed the XML of modified nodes only
write_tree_node_modified_only(node) ==
    Entry(node.full_path,
          IF node.type = "XmlFile" /\ node.xml_doc # NullDoc /\ node.is_modified
          THEN print(node.xml_doc)
          ELSE IF node.binary_data.fmt # "empty" THEN node.binary_data
          ELSE NoBytes)

\* DocumentImpl::write_tree_node: the entry written for a node
write_tree_node(node) ==
    Entry(node.full_path,
          IF node.type = "XmlFile" /\ node.xml_doc # NullDoc THEN print(node.xml_doc)
          ELSE IF node.binary_data.fmt # "empty" THEN node.binary_data
          ELSE NoBytes)

\* save_tree_to_zip, had it not skipped the deleted nodes
save_tree_to_zip_with_deleted(D) ==
    MapSeq(iterate_files(D.tree_), LAMBDA i : write_tree_node(D.tree_.nodes[i]))

\* DocumentImpl::save_tree_to_zip: the entries written when no write fails
save_tree_to_zip(D) ==
    MapSeq(SelectSeq(iterate_files(D.tree_), LAMBDA i : ~D.tree_.nodes[i].is_deleted),
           LAMBDA i : write_tree_node(D.tree_.nodes[i]))

\* What the environment does to one save_to_zip call:
\*   "ok"            every step succeeds
\*   "open_fails"    zip_open of the temporary archive returns null
\*   "write_fails"   zip_entry_open or zip_entry_write fails for an entry
\*   "remove_throws" std::filesystem::remove of the old file throws
\*   "rename_fails"  std::filesystem::rename throws
SaveEnv == {"ok", "open_fails", "write_fails", "remove_throws", "rename_fails"}

\* the old file is removed before the rename
RemovesOldFile(D, F, output_path) ==
    output_path = D.filepath_ /\ exists(F, D.filepath_)

\* the outcomes the environment can produce for this call
SaveEnvPossible(D, F, output_path, env) ==
    /\ env = "write_fails" => save_tree_to_zip(D) # <<>>
    /\ env = "remove_throws" => RemovesOldFile(D, F, output_path)

\* save_to_zip, had it left the temporary archive of a failed write behind
save_to_zip_keeps_temp(D, F, output_path, env) ==
    LET temp_path == TempPath(output_path) IN
    IF env = "open_fails" THEN [fs |-> F, ok |-> FALSE, threw |-> FALSE]
    ELSE IF env = "write_fails"
         THEN [fs |-> SetKey(F, temp_path, ZipFile(<<>>)), ok |-> FALSE, threw |-> FALSE]
    ELSE With(SetKey(F, temp_path, ZipFile(save_tree_to_zip(D))), LAMBDA written :
         IF env = "remove_throws"
         THEN [fs |-> written, ok |-> FALSE, threw |-> TRUE]
         ELSE With(IF RemovesOldFile(D, F, output_path)
                   THEN SetKey(written, D.filepath_, NoFile) ELSE written,
                   LAMBDA removed :
              IF env = "rename_fails"
              THEN [fs |-> SetKey(removed, temp_path, NoFile),
                    ok |-> FALSE, threw |-> FALSE]
              ELSE [fs |-> SetKey(SetKey(removed, output_path, written[temp_path]),
                                  temp_path, NoFile),
                    ok |-> TRUE, threw |-> FALSE]))

\* DocumentImpl::save_to_zip
save_to_zip(D, F, output_path, env) ==
    LET temp_path == TempPath(output_path) IN
    IF env = "open_fails" THEN [fs |-> F, ok |-> FALSE, threw |-> FALSE]
    ELSE IF env = "write_fails"
         THEN [fs |-> SetKey(F, temp_path, NoFile), ok |-> FALSE, threw |-> FALSE]
    ELSE With(SetKey(F, temp_path, ZipFile(save_tree_to_zip(D))), LAMBDA written :
         IF env = "remove_throws"
         THEN [fs |-> written, ok |-> FALSE, threw |-> TRUE]
         ELSE With(IF RemovesOldFile(D, F, output_path)
                   THEN SetKey(written, D.filepath_, NoFile) ELSE written,
                   LAMBDA removed :
              IF env = "rename_fails"
              THEN [fs |-> SetKey(removed, temp_path, NoFile),
                    ok |-> FALSE, threw |-> FALSE]
              ELSE [fs |-> SetKey(SetKey(removed, output_path, written[temp_path]),
                                  temp_path, NoFile),
                    ok |-> TRUE, threw |-> FALSE]))

\* the keys of relationships_ in std::map order, over the keys the model uses
RelsKeyRank(path) ==
    IF path = PACKAGE_RELS THEN 1
    ELSE IF path = DOCUMENT_RELS THEN 2
    ELSE 3

RECURSIVE KeysInOrder(_)
KeysInOrder(keys) ==
    IF keys = {} THEN <<>>
    ELSE LET k == CHOOSE x \in keys : \A y \in keys : RelsKeyRank(x) <= RelsKeyRank(y)
         IN <<k>> \o KeysInOrder(keys \ {k})

RECURSIVE UpdateEach(_, _)
UpdateEach(D, keys) ==
    IF keys = <<>> THEN D
    ELSE With(update_relationships_xml(D, Head(keys)),
              LAMBDA D2 : UpdateEach(D2, Tail(keys)))

\* Document::save(filepath), lines 92-96: the parts rebuilt before writing
UpdateModifiedParts(D) ==
    With(UpdateEach(D, KeysInOrder(DOMAIN D.relationships_)), update_content_types_xml)

\* the clearing of the flags, had it left is_new alone
ClearModifiedFlags_keeps_new(D) ==
    [D EXCEPT !.tree_.nodes = [i \in DOMAIN D.tree_.nodes |->
                    [D.tree_.nodes[i] EXCEPT !.is_modified = FALSE]],
              !.modified_parts_ = {},
              !.zip_dirty_ = TRUE]

\* Document::save(filepath), lines 102-109
ClearModifiedFlags(D) ==
    [D EXCEPT !.tree_.nodes = [i \in DOMAIN D.tree_.nodes |->
                    [D.tree_.nodes[i] EXCEPT !.is_modified = FALSE, !.is_new = FALSE]],
              !.modified_parts_ = {},
              !.zip_dirty_ = TRUE]

\* save, had it cleared the flags and the modified set whether or not
\* save_to_zip succeeded
save_clears_on_failure(D, F, filepath, env) ==
    IF ~D.is_open_ THEN [doc |-> D, fs |-> F, ok |-> FALSE, threw |-> FALSE]
    ELSE With(UpdateModifiedParts(D), LAMBDA U :
           With(save_to_zip(U, F, filepath, env), LAMBDA r :
             [doc |-> ClearModifiedFlags(U),
              fs |-> r.fs, ok |-> r.ok, threw |-> r.threw]))

\* Document::save(const std::string&)
save(D, F, filepath, env) ==
    IF ~D.is_open_ THEN [doc |-> D, fs |-> F, ok |-> FALSE, threw |-> FALSE]
    ELSE With(UpdateModifiedParts(D), LAMBDA U :
           With(save_to_zip(U, F, filepath, env), LAMBDA r :
             [doc |-> IF r.ok THEN ClearModifiedFlags(U) ELSE U,
              fs |-> r.fs, ok |-> r.ok, threw |-> r.threw]))

(***************************************************************************)
(* Opening, closing, creating                                              *)
(***************************************************************************)
\* Document::close
close(D) ==
    [close_zip(D) EXCEPT !.tree_ = clear(D.tree_),
                         !.xml_parts_cache_ = NoPathMap,
                         !.media_files_cache_ = NoPathMap,
                         !.relationships_ = NoRelationships,
                         !.modified_parts_ = {},
                         !.content_types_ = <<>>,
                         !.is_open_ = FALSE]

\* Document::open(const std::string&)
open(D, F, filepath) ==
    With([close(D) EXCEPT !.filepath_ = filepath], LAMBDA C :
      IF ~open_zip_ok(F, filepath) THEN C
      ELSE With(load_tree_from_zip([C EXCEPT !.zip_handle_ = filepath], F), LAMBDA L1 :
           With(build_caches_from_tree(L1), LAMBDA L2 :
           With(load_all_relationships(L2), LAMBDA L3 :
           With(load_content_types(L3), LAMBDA L4 :
             [L4 EXCEPT !.is_open_ = TRUE])))))

\* the lambda create_xml_part_impl of create_empty_document, with the content
\* the caller appends to the new part
create_xml_part_impl(D, path, content) ==
    With(find_or_create_node(D.tree_, path, "XmlFile"), LAMBDA r :
      [D EXCEPT !.tree_ = [r.T EXCEPT !.nodes[r.node].xml_doc = content,
                                      !.nodes[r.node].is_new = TRUE,
                                      !.nodes[r.node].is_modified = TRUE],
                !.modified_parts_ = @ \cup {path},
                !.xml_parts_cache_ = SetKey(@, path, r.node)])

\* the eleven parts of create_empty_document, in creation order
EmptyDocumentParts ==
    << <<CONTENT_TYPES, XmlDoc("Types", <<
            DefaultEl("rels", CT_RELS),
            DefaultEl("xml", CT_XML),
            OverrideEl(Slash(APP_XML), "application/vnd.openxmlformats-officedocument.extended-properties+xml"),
            OverrideEl(Slash(CORE_XML), "application/vnd.openxmlformats-package.core-properties+xml"),
            OverrideEl(Slash(DOCUMENT_XML), CT_DOCUMENT),
            OverrideEl(Slash(FONT_TABLE_XML), "application/vnd.openxmlformats-officedocument.wordprocessingml.fontTable+xml"),
            OverrideEl(Slash(SETTINGS_XML), CT_SETTINGS),
            OverrideEl(Slash(STYLES_XML), CT_STYLES),
            OverrideEl(Slash(THEME_XML), "application/vnd.openxmlformats-officedocument.theme+xml")>>)>>,
       <<PACKAGE_RELS, XmlDoc("Relationships", <<
            RelationshipEl(Relationship(RId(1), "http://schemas.openxmlformats.org/officeDocument/2006/relationships/extended-properties", APP_XML, "")),
            RelationshipEl(Relationship(RId(2), "http://schemas.openxmlformats.org/package/2006/relationships/metadata/core-properties", CORE_XML, "")),
            RelationshipEl(Relationship(RId(3), "http://schemas.openxmlformats.org/officeDocument/2006/relationships/custom-properties", CUSTOM_XML, "")),
            RelationshipEl(Relationship(RId(4), "http://schemas.openxmlformats.org/officeDocument/2006/relationships/officeDocument", DOCUMENT_XML, ""))>>)>>,
       <<DOCUMENT_RELS, XmlDoc("Relationships", <<
            RelationshipEl(Relationship(RId(1), "http://schemas.openxmlformats.org/officeDocument/2006/relationships/styles", <<Nm("styles", "xml")>>, "")),
            RelationshipEl(Relationship(RId(2), "http://schemas.openxmlformats.org/officeDocument/2006/relationships/settings", <<Nm("settings", "xml")>>, "")),
            RelationshipEl(Relationship(RId(3), "http://schemas.openxmlformats.org/officeDocument/2006/relationships/theme", <<Nm("theme", ""), Nm("theme1", "xml")>>, "")),
            RelationshipEl(Relationship(RId(4), "http://schemas.openxmlformats.org/officeDocument/2006/relationships/fontTable", <<Nm("fontTable", "xml")>>, ""))>>)>>,
       <<DOCUMENT_XML, XmlDoc("w:document", <<El("w:body", <<"w:p", "w:sectPr">>)>>)>>,
       <<STYLES_XML, XmlDoc("w:styles", <<El("w:docDefaults", <<>>), El("w:style", <<>>)>>)>>,
       <<SETTINGS_XML, XmlDoc("w:settings", <<El("w:zoom", <<>>), El("w:defaultTabStop", <<>>),
            El("w:characterSpacingControl", <<>>), El("w:compat", <<>>)>>)>>,
       <<FONT_TABLE_XML, XmlDoc("w:fonts", <<El("w:font", <<>>)>>)>>,
       <<THEME_XML, XmlDoc("a:theme", <<El("a:themeElements", <<>>)>>)>>,
       <<CORE_XML, XmlDoc("cp:coreProperties", <<El("dc:creator", <<>>),
            El("cp:lastModifiedBy", <<>>), El("cp:revision", <<>>),
            El("dcterms:created", <<>>), El("dcterms:modified", <<>>)>>)>>,
       <<APP_XML, XmlDoc("Properties", <<El("Template", <<>>), El("Pages", <<>>),
            El("Words", <<>>), El("Characters", <<>>), El("Application", <<>>),
            El("DocSecurity", <<>>)>>)>>,
       <<CUSTOM_XML, XmlDoc("Properties", <<>>)>> >>

\* CreateParts, had create_empty_document left out its last block
RECURSIVE CreateParts_without_last(_, _)
CreateParts_without_last(D, parts) ==
    IF Len(parts) <= 1 THEN D
    ELSE With(create_xml_part_impl(D, Head(parts)[1], Head(parts)[2]),
              LAMBDA D2 : CreateParts_without_last(D2, Tail(parts)))

\* the blocks of create_empty_document, one part each
RECURSIVE CreateParts(_, _)
CreateParts(D, parts) ==
    IF parts = <<>> THEN D
    ELSE With(create_xml_part_impl(D, Head(parts)[1], Head(parts)[2]),
              LAMBDA D2 : CreateParts(D2, Tail(parts)))

\* DocumentImpl::create_empty_document
create_empty_document(D) ==
    LET C == [D EXCEPT !.tree_ = clear(D.tree_),
                       !.xml_parts_cache_ = NoPathMap,
                       !.media_files_cache_ = NoPathMap,
                       !.relationships_ = NoRelationships,
                       !.modified_parts_ = {},
                       !.content_types_ = <<>>]
    IN With(CreateParts(C, EmptyDocumentParts), LAMBDA P :
         With(load_all_relationships(P), load_content_types))

\* Document::create_empty
create_empty(D, filepath) ==
    With(close(D), LAMBDA C :
      With(create_empty_document(IF ~IsEmptyName(filepath)
                                 THEN [C EXCEPT !.filepath_ = filepath] ELSE C),
           LAMBDA E : [E EXCEPT !.is_open_ = TRUE]))

(***************************************************************************)
(* Document: XML parts                                                     *)
(***************************************************************************)
\* Document::get_filepath
get_filepath(D) == D.filepath_

\* Document::get_xml_part: the document of the part, NullDoc for nullptr
get_xml_part(D, part_path) ==
    LET node == find_node(D.tree_, part_path)
    IN IF node # 0 /\ D.tree_.nodes[node].xml_doc # NullDoc
       THEN D.tree_.nodes[node].xml_doc ELSE NullDoc

\* Document::has_xml_part
has_xml_part(D, part_path) ==
    LET node == find_node(D.tree_, part_path)
    IN node # 0 /\ D.tree_.nodes[node].type = "XmlFile"

\* Document::get_all_part_names
get_all_part_names(D) ==
    MapSeq(get_all_xml_files(D.tree_), LAMBDA i : D.tree_.nodes[i].full_path)

\* Document::get_part_count
get_part_count(D) ==
    Len(SelectSeq(iterate_files(D.tree_), LAMBDA i : D.tree_.nodes[i].type = "XmlFile"))

\* Document::create_xml_part
create_xml_part(D, part_path) ==
    With(find_or_create_node(D.tree_, part_path, "XmlFile"), LAMBDA r :
      [D EXCEPT !.tree_ = [r.T EXCEPT
                   !.nodes[r.node].xml_doc = IF @ = NullDoc THEN EmptyDoc ELSE @,
                   !.nodes[r.node].is_new = TRUE,
                   !.nodes[r.node].is_modified = TRUE],
                !.modified_parts_ = @ \cup {part_path},
                !.xml_parts_cache_ = SetKey(@, part_path, r.node)])

\* std::map::erase(key)
EraseKey(f, k) == [x \in DOMAIN f \ {k} |-> f[x]]

\* Document::remove_xml_part
remove_xml_part(D, part_path) ==
    LET node == find_node(D.tree_, part_path)
        T == IF node # 0 THEN [D.tree_ EXCEPT !.nodes[node].is_deleted = TRUE]
             ELSE D.tree_
    IN [D EXCEPT !.tree_ = T,
                 !.xml_parts_cache_ = EraseKey(@, part_path),
                 !.modified_parts_ = @ \ {part_path}]

\* Document::mark_modified
mark_modified(D, part_path) ==
    LET node == find_node(D.tree_, part_path)
    IN [D EXCEPT !.modified_parts_ = @ \cup {part_path},
                 !.tree_ = IF node # 0
                           THEN [D.tree_ EXCEPT !.nodes[node].is_modified = TRUE]
                           ELSE D.tree_]

\* the body Document::paragraphs / Document::tables hand to set_parent: the
\* child tags of w:document/w:body, <<>> for the static empty cursor
BodyOf(D) ==
    LET d == get_xml_part(D, DOCUMENT_XML)
        bodies == IF d = NullDoc THEN <<>> ELSE ChildrenOf(d, "w:document", "w:body")
    IN IF ~D.is_open_ \/ bodies = <<>> THEN <<>> ELSE bodies[1].a

\* Paragraph::set_parent: the cursor is the position in the body of its first
\* w:p child, 0 when it has none (a null xml_node)
Paragraph_set_parent(body) ==
    IF \E k \in DOMAIN body : body[k] = "w:p"
    THEN CHOOSE k \in DOMAIN body :
            body[k] = "w:p" /\ \A j \in 1..(k - 1) : body[j] # "w:p"
    ELSE 0

\* Paragraph::next: current.next_sibling(), the next child of the body of
\* any name
Paragraph_next(body, current) ==
    IF current # 0 /\ current < Len(body) THEN current + 1 ELSE 0

\* Paragraph::has_next
Paragraph_has_next(current) == current # 0

\* for (p = doc.paragraphs(); p.has_next(); p.next()): the positions visited
RECURSIVE ParagraphLoop(_, _)
ParagraphLoop(body, current) ==
    IF ~Paragraph_has_next(current) THEN <<>>
    ELSE <<current>> \o ParagraphLoop(body, Paragraph_next(body, current))

\* Document::paragraphs().has_next(): set_parent makes the first w:p child
\* current
paragraphs_has_next(D) == \E k \in DOMAIN BodyOf(D) : BodyOf(D)[k] = "w:p"

\* Document::tables().has_next()
tables_has_next(D) == \E k \in DOMAIN BodyOf(D) : BodyOf(D)[k] = "w:tbl"

(***************************************************************************)
(* Document content: DocumentInserter, Run                                 *)
(***************************************************************************)
\* pugi::xml_node::child(name) over the children kids: the position of the
\* first child of that name, 0 for the null node
ChildAt(kids, name) ==
    IF \E k \in DOMAIN kids : kids[k].tag = name
    THEN CHOOSE k \in DOMAIN kids :
            kids[k].tag = name /\ \A j \in 1..(k - 1) : kids[j].tag # name
    ELSE 0

\* the search for insert_pos: the child named name with position children of
\* that name before it, 0 (a null node) when position < 0 or there is none
InsertPos(body, name, position) ==
    LET S == {k \in DOMAIN body :
                /\ body[k].tag = name
                /\ Cardinality({j \in 1..(k - 1) : body[j].tag = name}) = position}
    IN IF position < 0 \/ S = {} THEN 0 ELSE CHOOSE k \in S : TRUE

\* a std::vector walked from rbegin() to rend()
Reversed(s) == [k \in 1..Len(s) |-> s[Len(s) + 1 - k]]

\* target_body.insert_copy_before(x, insert_pos) for each x of copies in
\* turn: every copy goes right before the node at insert_pos, which moves one
\* place to the right
RECURSIVE insert_copy_before(_, _, _)
insert_copy_before(body, copies, insert_pos) ==
    IF copies = <<>> THEN body
    ELSE insert_copy_before(SubSeq(body, 1, insert_pos - 1) \o <<Head(copies)>>
                               \o SubSeq(body, insert_pos, Len(body)),
                            Tail(copies), insert_pos + 1)

\* the document with the children of its first w:body replaced
SetBody(d, body) == [d EXCEPT !.kids[ChildAt(d.kids, "w:body")].a = body]

\* DocumentInserter::insert_paragraphs (name "w:p") and insert_tables (name
\* "w:tbl") with target D and source S
InsertNamed(D, S, position, name) ==
    LET target_doc_xml == get_xml_part(D, DOCUMENT_XML)
        source_doc_xml == get_xml_part(S, DOCUMENT_XML)
    IN IF ~D.is_open_ \/ ~S.is_open_ THEN D
       ELSE IF target_doc_xml = NullDoc \/ source_doc_xml = NullDoc THEN D
       ELSE IF \/ ChildrenOf(target_doc_xml, "w:document", "w:body") = <<>>
               \/ ChildrenOf(source_doc_xml, "w:document", "w:body") = <<>>
            THEN D
       ELSE With(BodyOf(D), LAMBDA target_body :
            With(SelectSeq(BodyOf(S), LAMBDA e : e.tag = name), LAMBDA source_list :
            With(InsertPos(target_body, name, position), LAMBDA insert_pos :
            With(IF insert_pos # 0
                 THEN insert_copy_before(target_body, Reversed(source_list), insert_pos)
                 ELSE target_body \o source_list, LAMBDA body :
              mark_modified(
                 [D EXCEPT !.tree_.nodes[find_node(D.tree_, DOCUMENT_XML)].xml_doc =
                              SetBody(@, body)],
                 DOCUMENT_XML)))))

\* DocumentInserter::insert_paragraphs
insert_paragraphs(D, S, position) == InsertNamed(D, S, position, "w:p")

\* DocumentInserter::insert_tables
insert_tables(D, S, position) == InsertNamed(D, S, position, "w:tbl")

\* a null pugi::xml_node
NullNode == El("", <<>>)

\* Run::set_parent: the first w:r child of the paragraph
Run_set_parent(para) ==
    IF para.tag = "" \/ ChildAt(para.a, "w:r") = 0 THEN NullNode
    ELSE para.a[ChildAt(para.a, "w:r")]

\* Run::set_color on the run current: the run it leaves, and its result
set_color(current, color_hex) ==
    IF current.tag = "" THEN [node |-> current, ok |-> FALSE]
    ELSE With(IF ChildAt(current.a, "w:rPr") = 0
              THEN [current EXCEPT !.a = <<El("w:rPr", <<>>)>> \o @]
              ELSE current, LAMBDA run :
         With(ChildAt(run.a, "w:rPr"), LAMBDA r :
         With(IF ChildAt(run.a[r].a, "w:color") = 0
              THEN [run.a[r] EXCEPT !.a = Append(@, El("w:color", <<>>))]
              ELSE run.a[r], LAMBDA rPr :
         With(ChildAt(rPr.a, "w:color"), LAMBDA c :
           [node |-> [run EXCEPT !.a[r] =
                        [rPr EXCEPT !.a[c].a = Append(@, <<"w:val", color_hex>>)]],
            ok |-> TRUE]))))

(***************************************************************************)
(* Document: media                                                         *)
(***************************************************************************)
\* Document::has_media
has_media(D, image_name) ==
    LET node == find_node(D.tree_, MediaPath(image_name))
    IN D.is_open_ /\ node # 0 /\ ~D.tree_.nodes[node].is_deleted

\* Document::list_media
list_media(D) ==
    MapSeq(SelectSeq(iterate_files(D.tree_), LAMBDA i :
                /\ D.tree_.nodes[i].type = "MediaFile"
                /\ ~D.tree_.nodes[i].is_deleted
                /\ StartsWithWordMedia(D.tree_.nodes[i].full_path)),
           LAMBDA i : SubSeq(D.tree_.nodes[i].full_path, 3,
                             Len(D.tree_.nodes[i].full_path)))

\* get_media_data, had it not tested is_deleted
get_media_data_of_deleted(D, image_name) ==
    LET node == find_node(D.tree_, MediaPath(image_name))
    IN IF D.is_open_ /\ node # 0
       THEN D.tree_.nodes[node].binary_data ELSE NoBytes

\* Document::get_media_data
get_media_data(D, image_name) ==
    LET node == find_node(D.tree_, MediaPath(image_name))
    IN IF D.is_open_ /\ node # 0 /\ ~D.tree_.nodes[node].is_deleted
       THEN D.tree_.nodes[node].binary_data ELSE NoBytes

\* Document::export_media; opens is whether std::ofstream could open
\* output_path
export_media(D, F, image_name, output_path, opens) ==
    LET node == find_node(D.tree_, MediaPath(image_name))
    IN IF ~D.is_open_ THEN [fs |-> F, ok |-> FALSE]
       ELSE IF node = 0 \/ D.tree_.nodes[node].is_deleted THEN [fs |-> F, ok |-> FALSE]
       ELSE IF ~opens THEN [fs |-> F, ok |-> FALSE]
       ELSE [fs |-> SetKey(F, output_path, DataFile(D.tree_.nodes[node].binary_data)),
             ok |-> TRUE]

\* Document::validate_image_format
validate_image_format(image_path) ==
    ToLower(image_path.ext) \in {"png", "jpg", "jpeg", "gif", "bmp", "tiff", "tif", "webp"}

\* the while loop of generate_unique_image_name
RECURSIVE UniqueName(_, _, _, _)
UniqueName(D, base_name, name, counter) ==
    IF has_media(D, name)
    THEN UniqueName(D, base_name,
                    [base_name EXCEPT !.ctr = base_name.ctr \o <<counter>>],
                    counter + 1)
    ELSE name

\* Document::generate_unique_image_name
generate_unique_image_name(D, base_name) == UniqueName(D, base_name, base_name, 1)

\* std::ifstream(path, binary) read to the end
ReadFile(F, path) == IF F[path].kind = "zip" THEN Bin("zip") ELSE F[path].data

\* add_media, had it created the node before it tested the data read
add_media_node_first(D, F, image_path, image_name) ==
    LET requested == IF ~IsEmptyName(image_name) THEN image_name ELSE image_path
        failed == [doc |-> D, ok |-> FALSE, media_path |-> <<>>]
    IN With(IF find_node(D.tree_, MediaPath(requested)) # 0
            THEN generate_unique_image_name(D, requested) ELSE requested,
            LAMBDA filename :
       LET media_path == MediaPath(filename) IN
       IF ~D.is_open_ THEN failed
       ELSE IF ~exists(F, image_path) THEN failed
       ELSE IF ~validate_image_format(image_path) THEN failed
       ELSE With(add_media_file(D.tree_, media_path, ReadFile(F, image_path),
                                get_mime_type(filename)), LAMBDA r :
            With([D EXCEPT !.tree_ = [r.T EXCEPT !.nodes[r.node].is_new = TRUE,
                                                 !.nodes[r.node].is_modified = TRUE],
                           !.media_files_cache_ = SetKey(@, media_path, r.node)],
                 LAMBDA A :
              IF ReadFile(F, image_path).fmt = "empty"
              THEN [doc |-> A, ok |-> FALSE, media_path |-> <<>>]
              ELSE [doc |-> add_content_type_override(A, Slash(media_path),
                                                      get_mime_type(filename)),
                    ok |-> TRUE, media_path |-> media_path])))

\* Document::add_media; image_name EmptyNm is a null or empty name.  media_path
\* is the path the file was stored under
add_media(D, F, image_path, image_name) ==
    LET requested == IF ~IsEmptyName(image_name) THEN image_name ELSE image_path
        failed == [doc |-> D, ok |-> FALSE, media_path |-> <<>>]
    IN With(IF find_node(D.tree_, MediaPath(requested)) # 0
            THEN generate_unique_image_name(D, requested) ELSE requested,
            LAMBDA filename :
       LET media_path == MediaPath(filename) IN
       IF ~D.is_open_ THEN failed
       ELSE IF ~exists(F, image_path) THEN failed
       ELSE IF ~validate_image_format(image_path) THEN failed
       ELSE IF ReadFile(F, image_path).fmt = "empty" THEN failed
       ELSE With(add_media_file(D.tree_, media_path, ReadFile(F, image_path),
                                get_mime_type(filename)), LAMBDA r :
            With([D EXCEPT !.tree_ = [r.T EXCEPT !.nodes[r.node].is_new = TRUE,
                                                 !.nodes[r.node].is_modified = TRUE],
                           !.media_files_cache_ = SetKey(@, media_path, r.node)],
                 LAMBDA A :
              [doc |-> add_content_type_override(A, Slash(media_path),
                                                 get_mime_type(filename)),
               ok |-> TRUE, media_path |-> media_path])))

\* Document::add_media_with_rel; next_id is the value of max_id + 1 in
\* add_relationship.  The relationship names the requested name (image_name,
\* or the file name of image_path)
add_media_with_rel_as(D, F, image_path, image_name, next_id) ==
    With(add_media(D, F, image_path, image_name), LAMBDA a :
      IF ~a.ok THEN [doc |-> a.doc, new_id |-> NoId, media_path |-> <<>>]
      ELSE LET name == IF ~IsEmptyName(image_name) THEN image_name ELSE image_path
           IN With(add_relationship_as(a.doc, DOCUMENT_RELS, REL_IMAGE,
                                       MediaTarget(name), "", next_id), LAMBDA r :
                [doc |-> r.doc, new_id |-> r.new_id, media_path |-> a.media_path]))

\* Document::add_media_with_rel where max_id + 1 does not overflow
add_media_with_rel(D, F, image_path, image_name) ==
    add_media_with_rel_as(D, F, image_path, image_name,
                          MaxId(RelsOf(D, DOCUMENT_RELS), 0) + 1)

\* Document::add_media_from_memory
add_media_from_memory(D, name, data, content_type) ==
    IF ~D.is_open_ \/ data.fmt = "empty" THEN [doc |-> D, ok |-> FALSE]
    ELSE LET media_path == MediaPath(name) IN
         With(add_media_file(D.tree_, media_path, data,
                  IF content_type = "" THEN get_mime_type(name) ELSE content_type),
              LAMBDA r :
         With([D EXCEPT !.tree_ = [r.T EXCEPT !.nodes[r.node].is_new = TRUE,
                                              !.nodes[r.node].is_modified = TRUE],
                        !.media_files_cache_ = SetKey(@, media_path, r.node)],
              LAMBDA A :
           [doc |-> add_content_type_override(A, Slash(media_path),
                                              r.T.nodes[r.node].content_type),
            ok |-> TRUE]))

\* Document::delete_media
delete_media(D, image_name) ==
    LET media_path == MediaPath(image_name)
        node == find_node(D.tree_, media_path)
        rel_id == find_relationship_id(D, DOCUMENT_RELS, MediaTarget(image_name))
    IN IF ~D.is_open_ \/ node = 0 THEN [doc |-> D, ok |-> FALSE]
       ELSE With([D EXCEPT !.tree_.nodes[node].is_deleted = TRUE], LAMBDA T :
            With(IF rel_id # NoId THEN remove_relationship(T, DOCUMENT_RELS, rel_id)
                 ELSE T, LAMBDA R :
              [doc |-> [R EXCEPT !.media_files_cache_ = EraseKey(@, media_path)],
               ok |-> TRUE]))

\* replace_media, had it also set the content type of the node and of the part
\* from the new file
replace_media_retyped(D, F, image_name, new_image_path) ==
    LET node == find_node(D.tree_, MediaPath(image_name))
    IN IF \/ ~D.is_open_
          \/ ~exists(F, new_image_path)
          \/ node = 0
          \/ ReadFile(F, new_image_path).fmt = "empty"
       THEN [doc |-> D, ok |-> FALSE]
       ELSE [doc |-> add_content_type_override(
                         [D EXCEPT !.tree_.nodes[node].binary_data =
                                        ReadFile(F, new_image_path),
                                   !.tree_.nodes[node].content_type =
                                        get_mime_type(new_image_path),
                                   !.tree_.nodes[node].is_modified = TRUE],
                         Slash(MediaPath(image_name)), get_mime_type(new_image_path)),
             ok |-> TRUE]

\* Document::replace_media
replace_media(D, F, image_name, new_image_path) ==
    LET node == find_node(D.tree_, MediaPath(image_name))
    IN IF \/ ~D.is_open_
          \/ ~exists(F, new_image_path)
          \/ node = 0
          \/ ReadFile(F, new_image_path).fmt = "empty"
       THEN [doc |-> D, ok |-> FALSE]
       ELSE [doc |-> [D EXCEPT !.tree_.nodes[node].binary_data = ReadFile(F, new_image_path),
                               !.tree_.nodes[node].is_modified = TRUE],
             ok |-> TRUE]

(***************************************************************************)
(* The files of the model                                                  *)
(***************************************************************************)
FULL_DOCX == Nm("full", "docx")

BARE_DOCX == Nm("bare", "docx")

BADCT_DOCX == Nm("badct", "docx")

NODOC_DOCX == Nm("nodoc", "docx")

NOBODY_DOCX == Nm("nobody", "docx")

NOTE_TXT == Nm("note", "txt")

OUT_DOCX == Nm("out", "docx")

A_JPG == Nm("a", "jpg")

B_JPG == Nm("b", "jpg")

EMPTY_PNG == Nm("empty", "png")

MISSING_JPG == Nm("missing", "jpg")

X_JPG == Nm("x", "jpg")

HEADER1_XML == <<Nm("word", ""), Nm("header1", "xml")>>

REL_STYLES == "http://schemas.openxmlformats.org/officeDocument/2006/relationships/styles"

\* a word/document.xml whose body holds the children tags
DocumentXml(tags) == RawXml(XmlDoc("w:document", <<El("w:body", tags)>>))

ContentTypesXml ==
    RawXml(XmlDoc("Types", <<DefaultEl("rels", CT_RELS), DefaultEl("xml", CT_XML),
                             DefaultEl("jpg", "image/jpeg"),
                             OverrideEl(Slash(DOCUMENT_XML), CT_DOCUMENT)>>))

\* a word/_rels/document.xml.rels holding the relationships rels
RelsXml(rels) == RawXml(XmlDoc("Relationships", MapSeq(rels, RelationshipEl)))

\* a complete package: content types, main document, its relationships, one
\* media file, and a styles part that is not well-formed XML
FullArchive(rels) ==
    ZipFile(<<Entry(CONTENT_TYPES, ContentTypesXml),
              Entry(DOCUMENT_XML, DocumentXml(<<"w:p", "w:tbl", "w:p", "w:sectPr">>)),
              Entry(DOCUMENT_RELS, RelsXml(rels)),
              Entry(MediaPath(X_JPG), Bin("x")),
              Entry(STYLES_XML, BadXml("styles"))>>)

FullRels ==
    <<Relationship(RId(1), REL_STYLES, <<Nm("styles", "xml")>>, ""),
      Relationship(RId(2), REL_IMAGE, MediaTarget(X_JPG), "")>>

\* the filesystem before the first call; OUT_DOCX, MISSING_JPG do not exist
InitialFs ==
    [n \in {FULL_DOCX, BARE_DOCX, BADCT_DOCX, NODOC_DOCX, NOBODY_DOCX, NOTE_TXT,
            A_JPG, B_JPG, EMPTY_PNG} |->
        CASE n = FULL_DOCX -> FullArchive(FullRels)
          [] n = BARE_DOCX -> ZipFile(<<Entry(DOCUMENT_XML, DocumentXml(<<"w:p">>))>>)
          [] n = BADCT_DOCX -> ZipFile(<<Entry(CONTENT_TYPES, BadXml("types")),
                                         Entry(DOCUMENT_XML, DocumentXml(<<"w:p">>)),
                                         Entry(DOCUMENT_RELS, BadXml("rels"))>>)
          [] n = NODOC_DOCX -> ZipFile(<<Entry(CONTENT_TYPES, ContentTypesXml)>>)
          [] n = NOBODY_DOCX -> ZipFile(<<Entry(CONTENT_TYPES, ContentTypesXml),
                                          Entry(DOCUMENT_XML,
                                                RawXml(XmlDoc("w:document", <<>>)))>>)
          [] n = NOTE_TXT -> DataFile(Bin("note"))
          [] n = A_JPG -> DataFile(Bin("a"))
          [] n = B_JPG -> DataFile(Bin("b"))
          [] n = EMPTY_PNG -> DataFile(NoBytes)]

OpenPaths == {FULL_DOCX, BARE_DOCX, BADCT_DOCX, NODOC_DOCX, NOBODY_DOCX, NOTE_TXT, OUT_DOCX}

CreatePaths == {OUT_DOCX, EmptyNm}

PartPaths == {DOCUMENT_XML, HEADER1_XML}

AddMediaArgs == {<<A_JPG, X_JPG>>, <<B_JPG, X_JPG>>, <<A_JPG, EmptyNm>>,
                 <<EMPTY_PNG, EmptyNm>>, <<MISSING_JPG, EmptyNm>>, <<NOTE_TXT, EmptyNm>>}

MemoryArgs == {<<X_JPG, Bin("m"), "">>, <<Nm("z", "png"), NoBytes, "image/png">>}

MediaNames == {X_JPG, A_JPG}

ReplaceArgs == {<<X_JPG, B_JPG>>, <<X_JPG, MISSING_JPG>>, <<X_JPG, EMPTY_PNG>>,
                <<A_JPG, B_JPG>>}

EXPORT_JPG == Nm("export", "jpg")

\* the tag of the element a caller appends to a part
EDIT == "edit"

WithRelArgs == {<<A_JPG, X_JPG>>, <<A_JPG, EmptyNm>>, <<MISSING_JPG, EmptyNm>>}

EditPaths == {DOCUMENT_XML, DOCUMENT_RELS, CONTENT_TYPES}

OverrideArgs == {<<Slash(DOCUMENT_XML), CT_XML>>, <<Slash(HEADER1_XML), CT_XML>>}

\* number of calls made on the Document in one behaviour
MaxOps == 3

(***************************************************************************)
(* Observers                                                               *)
(***************************************************************************)
Range(f) == {f[x] : x \in DOMAIN f}

\* a call on the Document and its result: the file path and the part or media
\* path it was given, the media path it stored to, the id it returned
Call(op, ok, path, part, stored, id) ==
    [op |-> op, ok |-> ok, path |-> path, part |-> part, stored |-> stored, id |-> id]

NoCall == Call("", FALSE, EmptyNm, <<>>, <<>>, NoId)

\* a call of save, and what the environment did to its save_to_zip ("" when
\* the call returned before save_to_zip)
SaveCall(ok, path, env) ==
    [op |-> "save", ok |-> ok, path |-> path, part |-> <<>>, stored |-> <<>>,
     id |-> NoId, env |-> env]

Brief(c) == [op |-> c.op, ok |-> c.ok, path |-> c.path]

\* what a caller sees of the parts and the media of a document
PartNames(D) == Range(get_all_part_names(D))

MediaData(D) == {<<m, get_media_data(D, m[1])>> : m \in Range(list_media(D))}

\* the shape of the package: the path and kind of every node of the tree, and
\* the relationship table of every relationship file
Shape(D) ==
    [nodes |-> {<<D.tree_.nodes[i].full_path, D.tree_.nodes[i].type>> :
                   i \in Range(iterate_all(D.tree_))},
     rels |-> D.relationships_]

NoShape == [nodes |-> {}, rels |-> NoRelationships]

\* the payload of every word/media/ entry of the archive at path
IngestedMedia(F, path) ==
    IF ~open_zip_ok(F, path) THEN [p \in {} |-> NoBytes]
    ELSE LET es == F[path].entries
             S == {k \in DOMAIN es : StartsWithWordMedia(es[k].name)}
         IN [p \in {es[k].name : k \in S} |->
                es[CHOOSE k \in S : es[k].name = p].data]

\*  prev, prev2  the two calls before the last one
\*  names, media what the last open reported
\*  tomb         the paths tombstoned since the document was opened or created
\*  adds         the current run of successful add_media calls for one name
\*  ids, table0  the ids returned by the current run of add_relationship calls
\*               on the file rels, and the ids of its table before the run
\*  issued       every <<file, id>> add_relationship has returned since the
\*               document was opened or created
\*  shape        the shape of the package right after the last create_empty
\*  bytes        for each media path, the payload last stored for it by the
\*               reading of the archive, add_media, add_media_from_memory or
\*               replace_media
\*  opened       the document has been open at some time
NoHist ==
    [prev |-> Brief(NoCall), prev2 |-> Brief(NoCall), names |-> {}, media |-> {},
     tomb |-> {}, adds |-> <<>>, ids |-> <<>>, table0 |-> <<>>, rels |-> <<>>,
     issued |-> {}, shape |-> NoShape, bytes |-> [p \in {} |-> NoBytes],
     opened |-> FALSE]

Observe(c, D) ==
    LET add == [requested |-> c.part, stored |-> c.stored,
                data |-> D.tree_.nodes[find_node(D.tree_, c.stored)].binary_data]
        same_run == hist.ids # <<>> /\ hist.rels = c.part
    IN [prev |-> Brief(last),
        prev2 |-> hist.prev,
        names |-> IF c.op = "open" THEN PartNames(D) ELSE hist.names,
        media |-> IF c.op = "open" THEN MediaData(D) ELSE hist.media,
        tomb |-> IF c.op \in {"open", "close", "create_empty"} THEN {}
                 ELSE IF c.op = "remove_xml_part" /\ find_node(doc.tree_, c.part) # 0
                      THEN hist.tomb \cup {c.part}
                 ELSE IF c.op = "delete_media" /\ c.ok THEN hist.tomb \cup {c.part}
                 ELSE hist.tomb,
        adds |-> IF c.op # "add_media" THEN <<>>
                 ELSE IF ~c.ok THEN hist.adds
                 ELSE IF hist.adds # <<>> /\ hist.adds[1].requested = c.part
                      THEN Append(hist.adds, add)
                 ELSE <<add>>,
        ids |-> IF c.op # "add_relationship" THEN <<>>
                ELSE IF same_run THEN Append(hist.ids, c.id) ELSE <<c.id>>,
        table0 |-> IF c.op # "add_relationship" THEN <<>>
                   ELSE IF same_run THEN hist.table0
                   ELSE MapSeq(RelsOf(doc, c.part), LAMBDA r : r.id),
        rels |-> IF c.op # "add_relationship" THEN <<>> ELSE c.part,
        issued |-> IF c.op \in {"open", "close", "create_empty"} THEN {}
                   ELSE IF c.op = "add_relationship"
                        THEN hist.issued \cup {<<c.part, c.id>>}
                   ELSE hist.issued,
        shape |-> IF c.op = "create_empty" THEN Shape(D) ELSE hist.shape,
        bytes |-> IF c.op = "open" THEN IngestedMedia(fs, c.path)
                  ELSE IF c.op \in {"close", "create_empty"} THEN NoHist.bytes
                  ELSE IF c.op \in {"add_media", "add_media_with_rel"} /\ c.ok
                       THEN SetKey(hist.bytes, c.stored, ReadFile(fs, c.path))
                  ELSE IF c.op = "replace_media" /\ c.ok
                       THEN SetKey(hist.bytes, c.part, ReadFile(fs, c.path))
                  ELSE IF c.op = "add_media_from_memory" /\ c.ok
                       THEN SetKey(hist.bytes, c.part,
                                   D.tree_.nodes[find_node(D.tree_, c.part)].binary_data)
                  ELSE hist.bytes,
        opened |-> hist.opened \/ D.is_open_]

\* one call: the document and the filesystem it leaves, and what it returned
Do(c, D, F) ==
    /\ steps < MaxOps
    /\ ~crashed
    /\ doc' = D
    /\ fs' = F
    /\ last' = c
    /\ hist' = Observe(c, D)
    /\ steps' = steps + 1
    /\ crashed' = FALSE

(***************************************************************************)
(* The calls                                                               *)
(***************************************************************************)
Open(p) ==
    \E D \in {open(doc, fs, p)} :
        Do(Call("open", D.is_open_, p, <<>>, <<>>, NoId), D, fs)

Close ==
    \E D \in {close(doc)} : Do(Call("close", TRUE, EmptyNm, <<>>, <<>>, NoId), D, fs)

\* Document::save(const std::string&) under one behaviour of the environment
SaveAs(p, env) ==
    /\ IF doc.is_open_
       THEN \E U \in {UpdateModifiedParts(doc)} : SaveEnvPossible(U, fs, p, env)
       ELSE env = "ok"
    /\ \E r \in {save(doc, fs, p, env)} :
          Do(SaveCall(r.ok, p, IF doc.is_open_ THEN env ELSE ""), r.doc, r.fs)

\* Document::save()
Save(env) ==
    IF ~doc.is_open_ \/ IsEmptyName(doc.filepath_)
    THEN /\ env = "ok"
         /\ Do(SaveCall(FALSE, doc.filepath_, ""), doc, fs)
    ELSE SaveAs(doc.filepath_, env)

CreateEmpty(p) ==
    \E D \in {create_empty(doc, p)} :
        Do(Call("create_empty", TRUE, p, <<>>, <<>>, NoId), D, fs)

AddMedia(image_path, image_name) ==
    LET requested == IF ~IsEmptyName(image_name) THEN image_name ELSE image_path
    IN \E r \in {add_media(doc, fs, image_path, image_name)} :
          Do(Call("add_media", r.ok, image_path, MediaPath(requested), r.media_path,
                  NoId), r.doc, fs)

AddMediaFromMemory(name, data, content_type) ==
    \E r \in {add_media_from_memory(doc, name, data, content_type)} :
       Do(Call("add_media_from_memory", r.ok, EmptyNm, MediaPath(name), <<>>, NoId),
          r.doc, fs)

DeleteMedia(image_name) ==
    \E r \in {delete_media(doc, image_name)} :
       Do(Call("delete_media", r.ok, EmptyNm, MediaPath(image_name), <<>>, NoId),
          r.doc, fs)

ReplaceMedia(image_name, new_image_path) ==
    \E r \in {replace_media(doc, fs, image_name, new_image_path)} :
       Do(Call("replace_media", r.ok, new_image_path, MediaPath(image_name), <<>>, NoId),
          r.doc, fs)

ExportMedia(image_name, opens) ==
    \E r \in {export_media(doc, fs, image_name, EXPORT_JPG, opens)} :
       /\ Do(Call("export_media", r.ok, EXPORT_JPG, MediaPath(image_name), <<>>, NoId),
             doc, r.fs)

\* Document::create_xml_part, and the caller appending a document element to
\* the returned document when fill is TRUE and the document has none
CreateXmlPart(part_path, fill) ==
    \E D \in {create_xml_part(doc, part_path)} :
        LET node == find_node(D.tree_, part_path)
            filled == IF fill /\ D.tree_.nodes[node].xml_doc = EmptyDoc
                      THEN [D EXCEPT !.tree_.nodes[node].xml_doc = XmlDoc("w:hdr", <<>>)]
                      ELSE D
        IN \E E \in {filled} :
              Do(Call("create_xml_part", TRUE, EmptyNm, part_path, <<>>, NoId), E, fs)

RemoveXmlPart(part_path) ==
    \E D \in {remove_xml_part(doc, part_path)} :
        Do(Call("remove_xml_part", TRUE, EmptyNm, part_path, <<>>, NoId), D, fs)

MarkModified(part_path) ==
    \E D \in {mark_modified(doc, part_path)} :
        Do(Call("mark_modified", TRUE, EmptyNm, part_path, <<>>, NoId), D, fs)

\* DocumentImpl::add_relationship on word/_rels/document.xml.rels.  Where
\* max_id + 1 overflows, the build either wraps to INT_MIN or traps
AddRelationship(target) ==
    IF add_relationship_overflows(doc, DOCUMENT_RELS)
    THEN \/ \E r \in {add_relationship_as(doc, DOCUMENT_RELS, REL_IMAGE, target, "",
                                           INT_MIN)} :
               Do(Call("add_relationship", TRUE, EmptyNm, DOCUMENT_RELS, <<>>, r.new_id),
                  r.doc, fs)
         \/ /\ steps < MaxOps
            /\ ~crashed
            /\ crashed' = TRUE
            /\ steps' = steps + 1
            /\ UNCHANGED <<doc, fs, last, hist>>
    ELSE \E r \in {add_relationship(doc, DOCUMENT_RELS, REL_IMAGE, target, "")} :
            Do(Call("add_relationship", TRUE, EmptyNm, DOCUMENT_RELS, <<>>, r.new_id),
               r.doc, fs)

\* Document::add_media_with_rel; the call returns the new id, or "" when
\* add_media failed.  Where max_id + 1 overflows in add_relationship, the build
\* either wraps to INT_MIN or traps
AddMediaWithRel(image_path, image_name) ==
    LET requested == IF ~IsEmptyName(image_name) THEN image_name ELSE image_path
        Returned(r) == Do(Call("add_media_with_rel", r.new_id # NoId, image_path,
                               MediaPath(requested), r.media_path, r.new_id),
                          r.doc, fs)
    IN IF add_relationship_overflows(doc, DOCUMENT_RELS)
          /\ add_media(doc, fs, image_path, image_name).ok
       THEN \/ \E r \in {add_media_with_rel_as(doc, fs, image_path, image_name,
                                                INT_MIN)} : Returned(r)
            \/ /\ steps < MaxOps
               /\ ~crashed
               /\ crashed' = TRUE
               /\ steps' = steps + 1
               /\ UNCHANGED <<doc, fs, last, hist>>
       ELSE \E r \in {add_media_with_rel(doc, fs, image_path, image_name)} :
               Returned(r)

\* DocumentImpl::add_content_type_override
AddContentTypeOverride(part_name, content_type) ==
    \E D \in {add_content_type_override(doc, part_name, content_type)} :
        Do(Call("add_content_type_override", TRUE, EmptyNm, part_name, <<>>, NoId),
           D, fs)

\* the caller appends an element to the document element of the document that
\* get_xml_part returned for part_path (a null pointer: nothing to edit)
EditXmlPart(part_path) ==
    LET d == get_xml_part(doc, part_path)
        node == find_node(doc.tree_, part_path)
    IN IF d = NullDoc
       THEN Do(Call("get_xml_part", FALSE, EmptyNm, part_path, <<>>, NoId), doc, fs)
       ELSE \E D \in {[doc EXCEPT !.tree_.nodes[node].xml_doc =
                          IF d.root = "" THEN XmlDoc(EDIT, <<>>)
                          ELSE XmlDoc(d.root, Append(d.kids, El(EDIT, <<>>)))]} :
               Do(Call("get_xml_part", TRUE, EmptyNm, part_path, <<>>, NoId), D, fs)

\* the operations of DocxTree, on the tree of the document
TreeCall(op, ok, path) == Call(op, ok, EmptyNm, path, <<>>, NoId)

TreeFindOrCreateNode(path, type) ==
    \E r \in {find_or_create_node(doc.tree_, path, type)} :
        Do(TreeCall("find_or_create_node", TRUE, path), [doc EXCEPT !.tree_ = r.T], fs)

TreeAddZipEntry(entry_path, data) ==
    \E T \in {add_zip_entry(doc.tree_, entry_path, data)} :
        Do(TreeCall("add_zip_entry", TRUE, entry_path), [doc EXCEPT !.tree_ = T], fs)

TreeAddXmlFile(path, d) ==
    \E r \in {add_xml_file(doc.tree_, path, d)} :
        Do(TreeCall("add_xml_file", TRUE, path), [doc EXCEPT !.tree_ = r.T], fs)

TreeAddMediaFile(path, data, content_type) ==
    \E r \in {add_media_file(doc.tree_, path, data, content_type)} :
        Do(TreeCall("add_media_file", TRUE, path), [doc EXCEPT !.tree_ = r.T], fs)

TreeRemoveNode(path) ==
    \E r \in {remove_node(doc.tree_, path)} :
        Do(TreeCall("remove_node", r.ok, path), [doc EXCEPT !.tree_ = r.T], fs)

TreeRebuildPathMap ==
    \E T \in {rebuild_path_map(doc.tree_)} :
        Do(TreeCall("rebuild_path_map", TRUE, <<>>), [doc EXCEPT !.tree_ = T], fs)

TreeClear ==
    \E T \in {clear(doc.tree_)} :
        Do(TreeCall("clear", TRUE, <<>>), [doc EXCEPT !.tree_ = T], fs)

RemoveRelationship(rel_id) ==
    \E D \in {remove_relationship(doc, DOCUMENT_RELS, rel_id)} :
        Do(Call("remove_relationship", TRUE, EmptyNm, DOCUMENT_RELS, <<>>, rel_id), D, fs)

(***************************************************************************)
(* Specifications                                                          *)
(***************************************************************************)
\* Spec: one Document object from its construction on
Init ==
    /\ doc = DocumentImpl
    /\ fs = InitialFs
    /\ last = NoCall
    /\ hist = NoHist
    /\ steps = 0
    /\ crashed = FALSE

Next ==
    \/ \E p \in OpenPaths : Open(p)
    \/ Close
    \/ \E env \in SaveEnv : Save(env)
    \/ \E env \in SaveEnv : SaveAs(OUT_DOCX, env)
    \/ \E p \in CreatePaths : CreateEmpty(p)
    \/ \E a \in AddMediaArgs : AddMedia(a[1], a[2])
    \/ \E a \in MemoryArgs : AddMediaFromMemory(a[1], a[2], a[3])
    \/ \E m \in MediaNames : DeleteMedia(m)
    \/ \E a \in ReplaceArgs : ReplaceMedia(a[1], a[2])
    \/ \E m \in MediaNames, opens \in BOOLEAN : ExportMedia(m, opens)
    \/ \E p \in PartPaths, fill \in BOOLEAN : CreateXmlPart(p, fill)
    \/ \E p \in PartPaths : RemoveXmlPart(p)
    \/ \E p \in PartPaths : MarkModified(p)

Spec == Init /\ [][Next]_vars

\* SpecSession: an editing session on a document that has just been opened or
\* created
InitSession ==
    /\ fs = InitialFs
    /\ \E c \in {Call("open", TRUE, FULL_DOCX, <<>>, <<>>, NoId),
                 Call("create_empty", TRUE, OUT_DOCX, <<>>, <<>>, NoId)} :
          /\ last = c
          /\ doc = IF c.op = "open" THEN open(DocumentImpl, InitialFs, c.path)
                   ELSE create_empty(DocumentImpl, c.path)
    /\ hist = [NoHist EXCEPT !.names = PartNames(doc), !.media = MediaData(doc),
                          !.shape = IF last.op = "create_empty" THEN Shape(doc)
                                    ELSE NoShape,
                          !.bytes = IF last.op = "open"
                                    THEN IngestedMedia(InitialFs, last.path)
                                    ELSE NoHist.bytes,
                          !.opened = TRUE]
    /\ steps = 0
    /\ crashed = FALSE

NextSession ==
    \/ \E env \in SaveEnv : Save(env)
    \/ \E env \in SaveEnv : SaveAs(OUT_DOCX, env)
    \/ \E a \in AddMediaArgs : AddMedia(a[1], a[2])
    \/ \E m \in MediaNames : DeleteMedia(m)
    \/ \E p \in PartPaths, fill \in BOOLEAN : CreateXmlPart(p, fill)
    \/ \E p \in PartPaths : RemoveXmlPart(p)

SpecSession == InitSession /\ [][NextSession]_vars

\* SpecRels: the relationship table of word/_rels/document.xml.rels, loaded
\* from an archive whose table is any sequence of at most MaxTable
\* relationships with ids of IdPool
IdPool ==
    {RId(1), RId(INT_MAX - 1), RId(INT_MAX),
     Id("rId", <<"0", "7">>), Id("rId", <<"3", "x">>), Id("rId", <<>>),
     Id("rId", <<"-", "5">>), Id("id9", <<>>),
     Id("rId", <<"9", "9", "9", "9", "9", "9", "9", "9", "9", "9", "9">>)}

MaxTable == 2

RelTables ==
    UNION {[1..n -> {Relationship(i, REL_IMAGE, MediaTarget(X_JPG), "") : i \in IdPool}]
           : n \in 0..MaxTable}

InitRels ==
    /\ \E table \in RelTables :
          /\ fs = [InitialFs EXCEPT ![FULL_DOCX] = FullArchive(table)]
          /\ doc = open(DocumentImpl, fs, FULL_DOCX)
    /\ last = Call("open", TRUE, FULL_DOCX, <<>>, <<>>, NoId)
    /\ hist = [NoHist EXCEPT !.names = PartNames(doc), !.media = MediaData(doc),
                          !.bytes = IngestedMedia(fs, FULL_DOCX),
                          !.opened = TRUE]
    /\ steps = 0
    /\ crashed = FALSE

NextRels ==
    \/ \E t \in {MediaTarget(X_JPG), MediaTarget(A_JPG)} : AddRelationship(t)
    \/ \E i \in IdPool \cup {RId(2)} : RemoveRelationship(i)

SpecRels == InitRels /\ [][NextRels]_vars

\* SpecDelete: media deleted from, and the document saved to, an archive
\* whose word/_rels/document.xml.rels is any sequence of at most MaxTable
\* image relationships with ids rId1, rId2 and targets media/x.jpg,
\* media/a.jpg
MediaTables ==
    UNION {[1..n -> {Relationship(i, REL_IMAGE, MediaTarget(m), "") :
                        i \in {RId(1), RId(2)}, m \in MediaNames}]
           : n \in 0..MaxTable}

InitDelete ==
    /\ \E table \in MediaTables :
          /\ fs = [InitialFs EXCEPT ![FULL_DOCX] = FullArchive(table)]
          /\ doc = open(DocumentImpl, fs, FULL_DOCX)
    /\ last = Call("open", TRUE, FULL_DOCX, <<>>, <<>>, NoId)
    /\ hist = [NoHist EXCEPT !.names = PartNames(doc), !.media = MediaData(doc),
                          !.bytes = IngestedMedia(fs, FULL_DOCX),
                          !.opened = TRUE]
    /\ steps = 0
    /\ crashed = FALSE

NextDelete ==
    \/ \E m \in MediaNames : DeleteMedia(m)
    \/ \E env \in SaveEnv : Save(env)
    \/ \E env \in SaveEnv : SaveAs(OUT_DOCX, env)

SpecDelete == InitDelete /\ [][NextDelete]_vars

\* SpecTables: the relationship and content-type tables and the XML parts
\* they are written to, on a document just created, just opened from an
\* archive whose word/_rels/document.xml.rels is one of SessionTables, or just
\* opened from an archive that holds word/document.xml only
SessionTables ==
    {FullRels, <<Relationship(RId(INT_MAX), REL_IMAGE, MediaTarget(X_JPG), "")>>}

InitTables ==
    /\ \E c \in {Call("open", TRUE, FULL_DOCX, <<>>, <<>>, NoId),
                 Call("open", TRUE, BARE_DOCX, <<>>, <<>>, NoId),
                 Call("create_empty", TRUE, OUT_DOCX, <<>>, <<>>, NoId)} :
          /\ last = c
          /\ IF c.op = "open"
             THEN \E table \in IF c.path = FULL_DOCX THEN SessionTables
                                ELSE {FullRels} :
                     /\ fs = [InitialFs EXCEPT ![FULL_DOCX] = FullArchive(table)]
                     /\ doc = open(DocumentImpl, fs, c.path)
             ELSE /\ fs = InitialFs
                  /\ doc = create_empty(DocumentImpl, c.path)
    /\ hist = [NoHist EXCEPT !.names = PartNames(doc), !.media = MediaData(doc),
                          !.shape = IF last.op = "create_empty" THEN Shape(doc)
                                    ELSE NoShape,
                          !.bytes = IF last.op = "open"
                                    THEN IngestedMedia(fs, last.path)
                                    ELSE NoHist.bytes,
                          !.opened = TRUE]
    /\ steps = 0
    /\ crashed = FALSE

NextTables ==
    \/ \E a \in WithRelArgs : AddMediaWithRel(a[1], a[2])
    \/ AddRelationship(MediaTarget(A_JPG))
    \/ \E i \in {RId(1), RId(3)} : RemoveRelationship(i)
    \/ \E a \in OverrideArgs : AddContentTypeOverride(a[1], a[2])
    \/ \E p \in EditPaths : EditXmlPart(p)
    \/ \E env \in SaveEnv : Save(env)
    \/ \E env \in SaveEnv : SaveAs(OUT_DOCX, env)

SpecTables == InitTables /\ [][NextTables]_vars

A_XML == Nm("a", "xml")

\* SpecTree: the operations of DocxTree on the tree of a new Document, with
\* paths that have a leading slash, an empty segment, a trailing slash, a file
\* for a directory, or nothing before the extension

TreePaths ==
    {<<>>, <<A_XML>>, Slash(<<A_XML>>), <<Nm("word", ""), A_XML>>,
     <<Nm("word", ""), EmptyNm, A_XML>>, <<Nm("word", ""), EmptyNm>>,
     <<A_XML, B_JPG>>, <<Nm("", "xml")>>, <<Nm("", "rels")>>}

EntryPaths ==
    {<<A_XML>>, <<Nm("", "xml")>>, <<Nm("", "rels")>>, <<Nm("a", "rels")>>,
     MediaPath(B_JPG), MediaPath(A_XML), <<NOTE_TXT>>, Slash(<<A_XML>>)}

EntryData == {RawXml(XmlDoc("a", <<>>)), BadXml("a")}

NextTree ==
    \/ \E p \in TreePaths : TreeFindOrCreateNode(p, "BinaryFile")
    \/ \E p \in EntryPaths, data \in EntryData : TreeAddZipEntry(p, data)
    \/ \E p \in {<<A_XML>>, <<Nm("word", ""), A_XML>>} :
          TreeAddXmlFile(p, XmlDoc("a", <<>>))
    \/ \E p \in {MediaPath(B_JPG), Slash(MediaPath(B_JPG))} :
          TreeAddMediaFile(p, Bin("b"), "image/jpeg")
    \/ \E p \in {<<A_XML>>, Slash(<<A_XML>>), <<Nm("word", "")>>, MediaPath(B_JPG)} :
          TreeRemoveNode(p)
    \/ TreeRebuildPathMap
    \/ TreeClear

SpecTree == Init /\ [][NextTree]_vars

(***************************************************************************)
(* The content of the body: DocumentInserter and Run::set_color            *)
(***************************************************************************)
TARGET_DOCX == Nm("target", "docx")

SOURCE_DOCX == Nm("source", "docx")

\* a run as Paragraph::add_run builds it, and a run with no w:rPr
RunEl(text) == El("w:r", <<El("w:rPr", <<>>), El("w:t", text)>>)

BareRunEl(text) == El("w:r", <<El("w:t", text)>>)

TargetBody ==
    <<El("w:p", <<BareRunEl("t1")>>), El("w:tbl", "t2"), El("w:p", <<>>),
      El("w:tbl", "t4"), El("w:sectPr", <<>>)>>

SourceBody ==
    <<El("w:p", <<RunEl("s1")>>), El("w:tbl", "s2"), El("w:p", <<RunEl("s3")>>),
      El("w:tbl", "s4"), El("w:sectPr", <<>>)>>

ContentArchive(body) ==
    ZipFile(<<Entry(CONTENT_TYPES, ContentTypesXml),
              Entry(DOCUMENT_XML, DocumentXml(body))>>)

ContentFs ==
    [n \in {TARGET_DOCX, SOURCE_DOCX, NOBODY_DOCX} |->
        IF n = TARGET_DOCX THEN ContentArchive(TargetBody)
        ELSE IF n = SOURCE_DOCX THEN ContentArchive(SourceBody)
        ELSE InitialFs[NOBODY_DOCX]]

SourcePaths == {SOURCE_DOCX, NOBODY_DOCX}

Positions == {-1, 0, 1, 2}

Colors == {"FF0000", "0070C0"}

\* a call on the content of the document: the source document or "", the
\* position given (for set_color, the place in the body of the paragraph of
\* the run), and the colour
ContentCall(op, ok, path, position, color) ==
    [op |-> op, ok |-> ok, path |-> path, part |-> <<>>, stored |-> <<>>,
     id |-> NoId, position |-> position, color |-> color]

\* DocumentInserter(&doc).insert_paragraphs(&source, position), the source
\* being a Document opened on source_path
InsertParagraphs(source_path, position) ==
    \E S \in {open(DocumentImpl, fs, source_path)} :
    \E D \in {insert_paragraphs(doc, S, position)} :
        Do(ContentCall("insert_paragraphs", TRUE, source_path, position, ""), D, fs)

\* DocumentInserter(&doc).insert_tables(&source, position)
InsertTables(source_path, position) ==
    \E S \in {open(DocumentImpl, fs, source_path)} :
    \E D \in {insert_tables(doc, S, position)} :
        Do(ContentCall("insert_tables", TRUE, source_path, position, ""), D, fs)

\* r = p.runs(); r.set_color(color_hex), p being on the paragraph at place k
\* of the body
SetColor(k, color_hex) ==
    /\ k \in DOMAIN BodyOf(doc)
    /\ BodyOf(doc)[k].tag = "w:p"
    /\ \E r \in {set_color(Run_set_parent(BodyOf(doc)[k]), color_hex)} :
       \E D \in {IF ~r.ok THEN doc
                 ELSE [doc EXCEPT !.tree_.nodes[find_node(doc.tree_, DOCUMENT_XML)].xml_doc =
                         SetBody(@, [BodyOf(doc) EXCEPT
                            ![k].a[ChildAt(BodyOf(doc)[k].a, "w:r")] = r.node])]} :
          Do(ContentCall("set_color", r.ok, EmptyNm, k, color_hex), D, fs)

InitContent ==
    /\ fs = ContentFs
    /\ \E p \in {TARGET_DOCX, SOURCE_DOCX} :
          /\ last = Call("open", TRUE, p, <<>>, <<>>, NoId)
          /\ doc = open(DocumentImpl, ContentFs, p)
    /\ hist = [NoHist EXCEPT !.names = PartNames(doc), !.opened = TRUE]
    /\ steps = 0
    /\ crashed = FALSE

NextContent ==
    \/ \E p \in SourcePaths, position \in Positions : InsertParagraphs(p, position)
    \/ \E p \in SourcePaths, position \in Positions : InsertTables(p, position)
    \/ \E k \in DOMAIN BodyOf(doc), c \in Colors : SetColor(k, c)

SpecContent == InitContent /\ [][NextContent]_vars

(***************************************************************************)
(* Properties                                                              *)
(***************************************************************************)
FileAt(F, path) == IF path \in DOMAIN F THEN F[path] ELSE NoFile

\* the entry paths of an archive with the content of each
ArchiveContent(f) == {<<f.entries[k].name, f.entries[k].data>> : k \in DOMAIN f.entries}

EntryNames(f) == {f.entries[k].name : k \in DOMAIN f.entries}

\* the name list_media reports for a media path
MediaNameOf(path) == SubSeq(path, 3, Len(path))

\* C1: for any archive that opens successfully, open(p); save(p2); open(p2)
\* with no edit in between reports the same set of part names and the same
\* set of media names as the first open, and the same bytes for every media
\* name.
C1_RoundTrip ==
    [][(/\ hist.prev.op = "open" /\ hist.prev.ok
        /\ last.op = "save" /\ last.ok
        /\ last'.op = "open" /\ last'.path = last.path)
       => (/\ PartNames(doc') = hist.names
           /\ {x[1] : x \in MediaData(doc')} = {x[1] : x \in hist.media}
           /\ MediaData(doc') = hist.media)]_vars

\* C2: a save that does not complete leaves the file that existed at the
\* destination in place with its content, and leaves no temporary file.
C2_SaveAllOrNothing ==
    [][(doc.is_open_ /\ last'.op = "save" /\ ~last'.ok)
       => (/\ exists(fs, last'.path) => FileAt(fs', last'.path) = fs[last'.path]
           /\ ~exists(fs', TempPath(last'.path)))]_vars

\* C3: once a path has been tombstoned (remove_xml_part, or delete_media for a
\* media path), every later successful save of the session writes no entry
\* for it, and the reopened archive lists it neither among the part names nor
\* among the media.
C3_TombstonesNotSaved ==
    (last.op = "save" /\ last.ok)
    => \A p \in hist.tomb :
          /\ p \notin EntryNames(fs[last.path])
          /\ p \notin PartNames(open(doc, fs, last.path))
          /\ MediaNameOf(p) \notin Range(list_media(open(doc, fs, last.path)))

C3_Witness ==
    /\ last.op = "save" /\ last.ok
    /\ hist.prev.op = "save" /\ hist.prev.ok
    /\ \E p \in hist.tomb : p \in EntryNames(InitialFs[FULL_DOCX])
    /\ EntryNames(fs[last.path]) # {}

\* the archive at path holds a readable word/document.xml with a w:document
\* root and a w:body child
HasMainDocument(F, path) ==
    /\ open_zip_ok(F, path)
    /\ \E k \in DOMAIN F[path].entries :
          /\ F[path].entries[k].name = DOCUMENT_XML
          /\ load_buffer_ok(F[path].entries[k].data)
          /\ ChildrenOf(load_buffer(F[path].entries[k].data), "w:document", "w:body") # <<>>

\* C4: open(path) ends with is_open() false whenever the archive cannot be
\* opened, holds no readable word/document.xml, or that part lacks the
\* w:document root or its w:body child; paragraphs() and tables() then return
\* cursors whose has_next() is false.
C4_FailedOpenIsClosed ==
    (last.op = "open" /\ ~HasMainDocument(fs, last.path))
    => (/\ ~doc.is_open_
        /\ ~paragraphs_has_next(doc)
        /\ ~tables_has_next(doc))

\* the content types document resolves a content type for the part path
Resolves(types, path) ==
    \/ \E e \in Range(ChildrenOf(types, "Types", "Override")) : e.a[1] = Slash(path)
    \/ \E e \in Range(ChildrenOf(types, "Types", "Default")) :
          /\ path[Len(path)].ext # ""
          /\ ToLower(e.a[1]) = ToLower(path[Len(path)].ext)

\* C5: after every successful save the archive holds a [Content_Types].xml
\* that resolves a content type (an Override for "/" + path, or a Default for
\* the extension) for every other entry written with it.
C5_ContentTypesComplete ==
    (last.op = "save" /\ last.ok)
    => LET A == fs[last.path].entries IN
       /\ \E k \in DOMAIN A : A[k].name = CONTENT_TYPES
       /\ \A k \in DOMAIN A : A[k].name = CONTENT_TYPES =>
             /\ load_buffer_ok(A[k].data)
             /\ \A j \in DOMAIN A : A[j].name # CONTENT_TYPES =>
                   Resolves(load_buffer(A[k].data), A[j].name)

\* C6: two consecutive successful saves with no call in between write the
\* same archive: the same entry paths, each with the same content.
C6_SaveIdempotent ==
    [][(/\ last.op = "save" /\ last.ok
        /\ last'.op = "save" /\ last'.ok)
       => ArchiveContent(fs'[last'.path]) = ArchiveContent(fs[last.path])]_vars

C6_Witness ==
    /\ last.op = "save" /\ last.ok
    /\ hist.prev.op = "save" /\ hist.prev.ok
    /\ hist.prev2.op = "create_empty"
    /\ Cardinality(EntryNames(fs[last.path])) > 1

RequiredParts ==
    {CONTENT_TYPES, PACKAGE_RELS, DOCUMENT_RELS, DOCUMENT_XML, STYLES_XML, SETTINGS_XML,
     FONT_TABLE_XML, THEME_XML, CORE_XML, APP_XML, CUSTOM_XML}

\* the call sequence create_empty(x); save(); open(x) has just ended
CreatedSavedReopened ==
    /\ hist.prev2.op = "create_empty" /\ ~IsEmptyName(hist.prev2.path)
    /\ hist.prev.op = "save" /\ hist.prev.ok /\ hist.prev.path = hist.prev2.path
    /\ last.op = "open" /\ last.path = hist.prev2.path

\* C7: after create_empty(x); save(); open(x), has_xml_part is true for each
\* of the eleven parts, and the body of word/document.xml holds exactly one
\* w:p and a w:sectPr child.
C7_CreateEmptyComplete ==
    CreatedSavedReopened
    => (/\ \A p \in RequiredParts : has_xml_part(doc, p)
        /\ Cardinality({k \in DOMAIN BodyOf(doc) : BodyOf(doc)[k] = "w:p"}) = 1
        /\ \E k \in DOMAIN BodyOf(doc) : BodyOf(doc)[k] = "w:sectPr")

C7_Witness == CreatedSavedReopened /\ doc.is_open_ /\ last.path = OUT_DOCX

\* C8: successive successful add_media calls that request the same name store
\* under pairwise distinct media paths; no call overwrites what an earlier
\* one stored, and all the names are in list_media().
C8_DistinctMediaPaths ==
    \A i \in DOMAIN hist.adds :
        /\ \A j \in DOMAIN hist.adds : i # j => hist.adds[i].stored # hist.adds[j].stored
        /\ get_media_data(doc, hist.adds[i].stored[3]) = hist.adds[i].data
        /\ MediaNameOf(hist.adds[i].stored) \in Range(list_media(doc))

Mutators ==
    {"save", "add_media", "add_media_from_memory", "delete_media", "replace_media",
     "create_xml_part", "remove_xml_part", "mark_modified"}

\* C9: while is_open() is false every mutating call is a no-op: the tree, the
\* relationship and content-type tables and the filesystem are unchanged and
\* get_all_part_names() stays empty.
C9_ClosedNoOp ==
    [][(~doc.is_open_ /\ last'.op \in Mutators)
       => (/\ doc'.tree_ = doc.tree_
           /\ doc'.relationships_ = doc.relationships_
           /\ doc'.content_types_ = doc.content_types_
           /\ fs' = fs
           /\ get_all_part_names(doc') = <<>>)]_vars

\* the N of an id "rId<N>"
IdNumber(id) == stoi(id.rest).val

IsRIdN(id) ==
    /\ id.pre = "rId"
    /\ stoi(id.rest).ok
    /\ IdNumber(id) >= 1
    /\ id = RId(IdNumber(id))

\* C10: the ids returned by a sequence of add_relationship calls on one
\* relationship file are of the form rId<N>, pairwise distinct, distinct from
\* every id already in the table, and N strictly increases from call to call.
C10_FreshIncreasingIds ==
    /\ \A k \in DOMAIN hist.ids :
          IsRIdN(hist.ids[k]) /\ hist.ids[k] \notin Range(hist.table0)
    /\ \A i, j \in DOMAIN hist.ids :
          i < j => (/\ hist.ids[i] # hist.ids[j]
                    /\ IdNumber(hist.ids[i]) < IdNumber(hist.ids[j]))

\* C11: an id add_relationship has returned for a relationship file is not
\* returned again by a later add_relationship on that file, whatever
\* remove_relationship calls were made in between.
C11_IdsNeverReissued ==
    [][(last'.op = "add_relationship" /\ ~crashed')
       => <<last'.part, last'.id>> \notin hist.issued]_vars

\* Closed, with an empty tree, empty tables and no archive handle
ClosedAndEmpty(D) ==
    /\ ~D.is_open_
    /\ Len(D.tree_.nodes) = 1
    /\ iterate_files(D.tree_) = <<>>
    /\ DOMAIN D.tree_.path_map_ = {}
    /\ D.relationships_ = NoRelationships
    /\ D.content_types_ = <<>>
    /\ D.zip_handle_ = EmptyNm

\* C12: close() leaves the document closed with an empty tree, empty
\* relationship and content-type tables and no archive handle; called right
\* after a close(), or on a document that has never been open, it changes
\* nothing.
C12_CloseIdempotent ==
    [][(last'.op = "close")
       => (/\ ClosedAndEmpty(doc')
           /\ (last.op = "close" \/ ~hist.opened) => (doc' = doc /\ fs' = fs))]_vars

\* C13: after create_empty(x); save(); open(x) the package has the shape it
\* had right after create_empty: the same node paths with the same kinds, and
\* the same relationship table for every relationship file.
C13_SameShape == CreatedSavedReopened => Shape(doc) = hist.shape

C13_Witness ==
    /\ CreatedSavedReopened
    /\ doc.is_open_
    /\ DOCUMENT_RELS \in DOMAIN hist.shape.rels
    /\ Len(hist.shape.rels[DOCUMENT_RELS]) = 4
    /\ Cardinality(hist.shape.nodes) > 11

\* C14: when add_media returns false nothing has changed: no node was created
\* or modified, and list_media(), the content-type table and the relationship
\* tables are as before the call.
C14_FailedAddMediaNoChange ==
    [][(last'.op = "add_media" /\ ~last'.ok)
       => (/\ doc'.tree_ = doc.tree_
           /\ list_media(doc') = list_media(doc)
           /\ doc'.content_types_ = doc.content_types_
           /\ doc'.relationships_ = doc.relationships_
           /\ fs' = fs)]_vars

\* add_media has failed on an open document that holds media, for an empty
\* source file
C14_Witness ==
    /\ last.op = "add_media" /\ ~last.ok
    /\ last.path = EMPTY_PNG
    /\ doc.is_open_
    /\ list_media(doc) # <<>>

\* C15: delete_media(name) on a live media node returns true; after it
\* has_media(name) is false and name is not in list_media(); the table of
\* word/_rels/document.xml.rels has lost the first relationship whose target is
\* media/<name> and is otherwise unchanged, and is unchanged when there is no
\* such relationship; the next successful save does not write the node.
C15_DeleteMedia ==
    [][/\ (last'.op = "delete_media" /\ has_media(doc, last'.part[3]))
          => LET name == last'.part[3]
                 rels == RelsOf(doc, DOCUMENT_RELS)
                 k == FirstRel(rels, LAMBDA r : r.target = MediaTarget(name))
             IN /\ last'.ok
                /\ ~has_media(doc', name)
                /\ <<name>> \notin Range(list_media(doc'))
                /\ RelsOf(doc', DOCUMENT_RELS) = IF k = 0 THEN rels ELSE RemoveAt(rels, k)
       /\ (last.op = "delete_media" /\ last.ok /\ last'.op = "save" /\ last'.ok)
          => last.part \notin EntryNames(fs'[last'.path])]_vars

\* C16: a successful replace_media(name, file) changes only the payload and
\* the modified flag of word/media/<name>: the media names, the relationship
\* tables and the content-type table are unchanged and the payload is the
\* file's.  It returns false when the node does not exist or the file is
\* missing or empty, and whenever it returns false nothing has changed.
C16_ReplaceMediaFrame ==
    [][(last'.op = "replace_media")
       => LET node == find_node(doc.tree_, last'.part)
              fails == \/ ~exists(fs, last'.path)
                       \/ node = 0
                       \/ ReadFile(fs, last'.path).fmt = "empty"
          IN /\ fs' = fs
             /\ fails => ~last'.ok
             /\ ~last'.ok => doc' = doc
             /\ last'.ok =>
                   /\ doc' = [doc EXCEPT
                                !.tree_.nodes[node].binary_data =
                                     doc'.tree_.nodes[node].binary_data,
                                !.tree_.nodes[node].is_modified =
                                     doc'.tree_.nodes[node].is_modified]
                   /\ doc'.tree_.nodes[node].binary_data = ReadFile(fs, last'.path)
                   /\ list_media(doc') = list_media(doc)
                   /\ doc'.relationships_ = doc.relationships_
                   /\ doc'.content_types_ = doc.content_types_]_vars

\* replace_media has replaced the payload of the ingested word/media/x.jpg
C16_Witness ==
    /\ last.op = "replace_media" /\ last.ok
    /\ get_media_data(doc, X_JPG) = Bin("b")
    /\ find_relationship_id(doc, DOCUMENT_RELS, MediaTarget(X_JPG)) = RId(2)

\* the media names a caller may ask for
ProbeNames == MediaNames \cup {p[3] : p \in DOMAIN hist.bytes}

\* C17: for a name that is unknown (nothing was stored for it) or tombstoned,
\* and for every name on a closed document, export_media returns false and
\* get_media_data returns an empty buffer; for any other name get_media_data
\* returns the bytes last stored for it by the reading of the archive,
\* add_media (from a file or from memory) or replace_media.
C17_MediaReads ==
    \A name \in ProbeNames :
        LET p == MediaPath(name)
            live == doc.is_open_ /\ p \in DOMAIN hist.bytes /\ p \notin hist.tomb
        IN IF live
           THEN get_media_data(doc, name) = hist.bytes[p]
           ELSE /\ get_media_data(doc, name) = NoBytes
                /\ \A opens \in BOOLEAN :
                      ~export_media(doc, fs, name, EXPORT_JPG, opens).ok

\* export_media has just failed for a tombstoned name of an open document
\* for which bytes were stored
C17_Witness ==
    /\ last.op = "export_media" /\ ~last.ok
    /\ doc.is_open_
    /\ last.part \in hist.tomb
    /\ last.part \in DOMAIN hist.bytes
    /\ hist.bytes[last.part] # NoBytes

\* C18: after create_empty() called without a path the document is open and
\* get_filepath() is empty, whatever was done with the Document before.
C18_CreateEmptyNoPath ==
    (last.op = "create_empty" /\ IsEmptyName(last.path))
    => (doc.is_open_ /\ IsEmptyName(get_filepath(doc)))

\* C19: after create_xml_part(p) on an open document has_xml_part(p) is true,
\* and a successful save that follows writes an entry p holding the XML of
\* the part, also when p was removed with remove_xml_part before.
C19_CreatedPartIsLive ==
    [][/\ (last'.op = "create_xml_part" /\ doc.is_open_)
          => has_xml_part(doc', last'.part)
       /\ (/\ last.op = "create_xml_part" /\ doc.is_open_
           /\ last'.op = "save" /\ last'.ok)
          => Entry(last.part, print(get_xml_part(doc, last.part)))
                \in Range(fs'[last'.path].entries)]_vars

\* C20: whenever add_media returns true, some media name that was not live
\* before the call is live after it: has_media is true for it, list_media()
\* lists it, it holds the bytes of the source file, and a save would write it
\* with those bytes.
C20_AddedMediaIsLive ==
    [][(last'.op = "add_media" /\ last'.ok)
       => \E n \in Range(list_media(doc')) :
             /\ ~has_media(doc, n[1])
             /\ has_media(doc', n[1])
             /\ get_media_data(doc', n[1]) = ReadFile(fs, last'.path)
             /\ Entry(MediaPath(n[1]), ReadFile(fs, last'.path))
                   \in Range(save_tree_to_zip(doc'))]_vars

\* C21: when add_media_with_rel returns a non-empty id, the relationship with
\* that id in word/_rels/document.xml.rels has the target media/<n>, n being
\* the name under which the call stored the file; it returns the empty string
\* exactly when add_media fails
C21_RelTargetsStoredName ==
    [][last'.op = "add_media_with_rel"
       => /\ (last'.id = NoId) <=> ~add_media(doc, fs, last'.path, last'.part[3]).ok
          /\ last'.id # NoId
             => LET rels == RelsOf(doc', DOCUMENT_RELS)
                IN /\ \E k \in DOMAIN rels : rels[k].id = last'.id
                   /\ \A k \in DOMAIN rels :
                         rels[k].id = last'.id
                         => rels[k].target = MediaTarget(last'.stored[3])]_vars


\* the Override elements of the [Content_Types].xml node of D that the table
\* of D does not hold: the ones update_content_types_xml synthesized
SynthesizedOverrides(D) ==
    {el \in Range(ChildrenOf(get_xml_part(D, CONTENT_TYPES), "Types", "Override")) :
        ~HasOverride(D, el.a[1])}

HasDefaultFor(D, path) ==
    \E k \in DOMAIN D.content_types_ :
        /\ D.content_types_[k].is_default
        /\ ToLower(D.content_types_[k].extension) = ToLower(path[Len(path)].ext)

\* C22: the [Content_Types].xml rebuilt by save holds a synthesized Override
\* only for nodes that are live and have neither a Default matching their
\* extension nor an Override: none for a tombstoned part, none for a part
\* covered by a Default
C22_SynthesizedOverrides ==
    [][(last'.op = "save" /\ last'.env # "")
       => \A el \in SynthesizedOverrides(doc') :
             \E i \in DOMAIN doc'.tree_.nodes :
                LET node == doc'.tree_.nodes[i]
                IN /\ is_file(node)
                   /\ Slash(node.full_path) = el.a[1]
                   /\ ~node.is_deleted
                   /\ ~HasDefaultFor(doc', node.full_path)]_vars


\* C23: when building the temporary archive fails (an entry cannot be opened
\* or written), save removes the temporary file and leaves the file at the
\* destination path as it was
C23_FailedWriteLeavesDestination ==
    [][(last'.op = "save" /\ last'.env = "write_fails")
       => /\ ~last'.ok
          /\ ~exists(fs', TempPath(last'.path))
          /\ FileAt(fs', last'.path) = FileAt(fs, last'.path)]_vars

\* a save whose write failed, to a destination that holds a file
C23_Witness ==
    /\ last.op = "save" /\ last.env = "write_fails"
    /\ exists(fs, last.path)


\* C24: after a save that succeeds, is_new and is_modified are false on every
\* node of the tree and the set of modified parts is empty; a save that fails
\* clears none of them
C24_SaveClearsFlags ==
    [][/\ (last'.op = "save" /\ last'.ok)
          => /\ \A i \in DOMAIN doc'.tree_.nodes :
                   /\ ~doc'.tree_.nodes[i].is_new
                   /\ ~doc'.tree_.nodes[i].is_modified
             /\ doc'.modified_parts_ = {}
       /\ (last'.op = "save" /\ ~last'.ok)
          => /\ \A i \in DOMAIN doc.tree_.nodes :
                   /\ doc.tree_.nodes[i].is_new => doc'.tree_.nodes[i].is_new
                   /\ doc.tree_.nodes[i].is_modified => doc'.tree_.nodes[i].is_modified
             /\ doc.modified_parts_ \subseteq doc'.modified_parts_]_vars

\* a save succeeded right after a call that had set flags
C24_Witness ==
    /\ last.op = "save" /\ last.ok
    /\ hist.prev.op \in {"add_media", "create_xml_part", "mark_modified"}
    /\ hist.prev.ok


C26_FullPathOfChild ==
    LET T == doc.tree_ IN
    \A i \in DOMAIN T.nodes \ {1} :
       /\ {p \in DOMAIN T.nodes :
             \E k \in DOMAIN T.nodes[p].children : T.nodes[p].children[k] = i}
          = {T.nodes[i].parent}
       /\ \A p \in {T.nodes[i].parent} \cap DOMAIN T.nodes :
             T.nodes[i].full_path =
                 IF T.nodes[p].full_path = <<>> THEN <<T.nodes[i].name>>
                 ELSE T.nodes[p].full_path \o <<T.nodes[i].name>>


\* the kind C28 gives an entry path
KindOfPath(path) ==
    IF path # <<>> /\ path[Len(path)].ext \in {"xml", "rels"} THEN "XmlFile"
    ELSE IF StartsWithWordMedia(path) THEN "MediaFile"
    ELSE "BinaryFile"

\* C28: the kind assigned to an entry at ingestion, before any parse-failure
\* downgrade, is XmlPart when the path ends in .xml or .rels, otherwise
\* MediaFile when the path begins with word/media/, otherwise BinaryFile: the
\* node that add_zip_entry creates has that kind, or BinaryFile when the kind
\* is XmlPart and the bytes do not parse
C28_KindOfEntry ==
    [][(last'.op = "add_zip_entry" /\ find_node(doc.tree_, last'.part) = 0)
       => LET node == doc'.tree_.nodes[find_node(doc'.tree_, last'.part)]
          IN /\ EntryType(last'.part) = KindOfPath(last'.part)
             /\ node.type = IF KindOfPath(last'.part) = "XmlFile"
                               /\ ~load_buffer_ok(node.binary_data)
                            THEN "BinaryFile" ELSE KindOfPath(last'.part)]_vars


\* the entries of the archive at path that open ingests, classifies as XML and
\* fails to parse
UnparsedXmlEntries(F, path) ==
    IF ~open_zip_ok(F, path) THEN {}
    ELSE {e \in Range(F[path].entries) :
            /\ EntryType(e.name) = "XmlFile"
            /\ e.data # NoBytes
            /\ ~load_buffer_ok(e.data)}

\* C27: an ingested entry whose path classifies as XML but whose bytes do not
\* parse becomes a BinaryFile node holding exactly the entry's bytes; open
\* still succeeds, has_xml_part does not report the part, and a save without
\* edits writes those exact bytes back under the same path
C27_UnparsedXmlKept ==
    [][/\ last'.op = "open"
          => \A e \in UnparsedXmlEntries(fs, last'.path) :
                LET node == find_node(doc'.tree_, e.name)
                IN /\ doc'.is_open_
                   /\ node # 0
                   /\ doc'.tree_.nodes[node].type = "BinaryFile"
                   /\ doc'.tree_.nodes[node].binary_data = e.data
                   /\ ~has_xml_part(doc', e.name)
       /\ (last.op = "open" /\ last'.op = "save" /\ last'.ok)
          => \A e \in UnparsedXmlEntries(fs, last.path) :
                <<e.name, e.data>> \in ArchiveContent(fs'[last'.path])]_vars

\* a document opened from an archive with an unparsable XML entry was saved
\* right after the open
C27_Witness ==
    /\ last.op = "save" /\ last.ok
    /\ hist.prev.op = "open" /\ hist.prev.ok
    /\ hist.prev.path \in DOMAIN InitialFs
    /\ UnparsedXmlEntries(InitialFs, hist.prev.path) # {}


TableCalls == {"add_relationship", "remove_relationship", "add_content_type_override"}

\* the XML elements of the entries of the content-type table of D
ContentTypeEls(D) ==
    {IF c.is_default THEN DefaultEl(c.extension, c.content_type)
     ELSE OverrideEl(c.part_name, c.content_type) : c \in Range(D.content_types_)}

\* add_relationship, remove_relationship and add_content_type_override leave
\* the tree, and with it the XML of every node, as it was
TableCallsLeaveXml ==
    last'.op \in TableCalls => doc'.tree_ = doc.tree_

\* save rewrites the XML of every relationship file that has a table so that
\* it lists the relationships of the table, in order
SaveWritesRelationships ==
    (last'.op = "save" /\ last'.env # "")
    => \A rels_path \in DOMAIN doc.relationships_ :
          get_xml_part(doc', rels_path)
          = XmlDoc("Relationships", MapSeq(doc.relationships_[rels_path], RelationshipEl))

\* C29 as stated: add_relationship, remove_relationship and
\* add_content_type_override change only the in-memory tables, the XML of the
\* relationship file and of [Content_Types].xml staying as it was until the
\* next save, and that save rewrites both so that they list exactly the
\* entries of the tables
C29_TablesWrittenAtSave ==
    [][/\ TableCallsLeaveXml
       /\ SaveWritesRelationships
       /\ (last'.op = "save" /\ last'.env # "")
          => LET types == get_xml_part(doc', CONTENT_TYPES)
             IN /\ types.root = "Types"
                /\ Range(types.kids) = ContentTypeEls(doc)]_vars

\* C29, amended: as C29, but the rewritten [Content_Types].xml lists one
\* Default for each extension of the table (with the content type of the first
\* entry for it), every Override of the table and, besides these, only
\* Overrides for file nodes of the tree that have no Override in the table
C29_TablesWrittenAtSaveAmended ==
    [][/\ TableCallsLeaveXml
       /\ SaveWritesRelationships
       /\ (last'.op = "save" /\ last'.env # "")
          => LET types == get_xml_part(doc', CONTENT_TYPES)
                 table == doc.content_types_
                 FirstFor(k) == /\ table[k].is_default
                                /\ \A j \in 1..(k - 1) :
                                      ~(table[j].is_default
                                        /\ table[j].extension = table[k].extension)
             IN /\ types.root = "Types"
                /\ {el \in Range(types.kids) : el.tag = "Default"}
                   = {DefaultEl(table[k].extension, table[k].content_type) :
                         k \in {j \in DOMAIN table : FirstFor(j)}}
                /\ {el \in Range(types.kids) : el.tag = "Override"}
                   = {el \in ContentTypeEls(doc) : el.tag = "Override"}
                     \cup SynthesizedOverrides(doc')
                /\ \A el \in Range(types.kids) : el.tag \in {"Default", "Override"}
                /\ \A el \in SynthesizedOverrides(doc') :
                      \E i \in DOMAIN doc'.tree_.nodes :
                         /\ is_file(doc'.tree_.nodes[i])
                         /\ Slash(doc'.tree_.nodes[i].full_path) = el.a[1]]_vars

\* a save right after a call that changed a table
C29_Witness ==
    /\ last.op = "save" /\ last.env # ""
    /\ hist.prev.op \in TableCalls
    /\ hist.prev.ok


\* the caller appended an element to the document
Edited(d) == d.root = EDIT \/ \E k \in DOMAIN d.kids : d.kids[k] = El(EDIT, <<>>)

\* C30: what save writes for an XML part is the XML its caller last put into
\* that part: for every part path, the .rels files and [Content_Types].xml
\* included, the edits made to the part's XML document before the save are in
\* the saved archive
C30_EditsAreSaved ==
    [][(last'.op = "save" /\ last'.ok)
       => \A p \in EditPaths :
             LET d == get_xml_part(doc, p)
             IN (d # NullDoc /\ Edited(d))
                => <<p, print(d)>> \in ArchiveContent(fs'[last'.path])]_vars


\* C31: the archive handle is open only during open(): when open() returns,
\* successfully or not, the Document holds no open handle on the archive file,
\* and none is held while the document is edited or saved
C31_NoHandleHeld == doc.zip_handle_ = EmptyNm

\* the XML parts of the tree that are not tombstoned
LiveParts(D) ==
    {i \in Range(iterate_files(D.tree_)) :
        D.tree_.nodes[i].type = "XmlFile" /\ ~D.tree_.nodes[i].is_deleted}

AskedPaths(D) ==
    {D.tree_.nodes[i].full_path : i \in Range(iterate_all(D.tree_))}
        \cup PartPaths \cup {MediaPath(n) : n \in MediaNames}

\* C33: in every reachable state and for every path p, has_xml_part(p) is true
\* exactly when get_xml_part(p) is non-null
C33_HasIffGet ==
    \A p \in AskedPaths(doc) : has_xml_part(doc, p) <=> get_xml_part(doc, p) # NullDoc

\* C34: delete_media(name) and replace_media(name, file) return false and
\* change nothing whenever has_media(name) is false, including for a name that
\* was deleted earlier in the session
C34_NoMediaNoChange ==
    [][(/\ last'.op \in {"delete_media", "replace_media"}
        /\ ~has_media(doc, last'.part[3]))
       => (~last'.ok /\ doc' = doc /\ fs' = fs)]_vars

\* C35: in every reachable state only Root and Directory nodes have children
\* and no two children of one node have the same name, whatever paths were
\* passed to find_or_create_node, create_xml_part or add_media_from_memory
C35_ChildrenWellFormed ==
    \A i \in DOMAIN doc.tree_.nodes :
        LET n == doc.tree_.nodes[i]
        IN /\ n.children # <<>> => n.type \in {"Root", "Directory"}
           /\ \A j, k \in DOMAIN n.children :
                 j # k => doc.tree_.nodes[n.children[j]].name
                            # doc.tree_.nodes[n.children[k]].name

\* what C36 names of the in-memory state: the nodes with their payloads and
\* flags, and the relationship and content-type tables
InMemory(D) ==
    [is_open_ |-> D.is_open_, nodes |-> D.tree_.nodes,
     relationships_ |-> D.relationships_, content_types_ |-> D.content_types_]

\* C36: a save that fails leaves the document open and its in-memory state as
\* before the call: the same nodes, the same node payloads, the same
\* is_new/is_modified/is_deleted flags and the same relationship and
\* content-type tables
C36_FailedSaveChangesNothing ==
    [][(last'.op = "save" /\ ~last'.ok /\ doc.is_open_)
       => InMemory(doc') = InMemory(doc)]_vars

\* the parts save() serializes from the tables before it writes the archive
RebuiltParts(D) == DOMAIN D.relationships_ \cup {CONTENT_TYPES}

\* C36, amended: a save that fails leaves the document open, with the same
\* relationship and content-type tables, the same set of modified parts, and
\* every node other than the relationship files and [Content_Types].xml as
\* before the call; those parts hold the serialization of the tables, as the
\* first step of save() leaves them, and no flag of an existing node changes
C36_FailedSaveKeepsTables ==
    [][(last'.op = "save" /\ ~last'.ok /\ doc.is_open_)
       => /\ doc'.is_open_
          /\ doc'.relationships_ = doc.relationships_
          /\ doc'.content_types_ = doc.content_types_
          /\ doc'.modified_parts_ = doc.modified_parts_
          /\ doc'.zip_dirty_ = doc.zip_dirty_
          /\ doc' \in {doc, UpdateModifiedParts(doc)}
          /\ \A i \in DOMAIN doc.tree_.nodes :
                LET n == doc.tree_.nodes[i]
                    n2 == doc'.tree_.nodes[i]
                IN /\ n2.full_path = n.full_path
                   /\ n2.is_new = n.is_new
                   /\ n2.is_modified = n.is_modified
                   /\ n2.is_deleted = n.is_deleted
                   /\ (n.type \notin {"Root", "Directory"}
                         /\ n.full_path \notin RebuiltParts(doc)) => n2 = n]_vars

\* a save that reached the writing of the archive and failed, right after a
\* call that changed the relationship table
C36_Witness ==
    /\ last.op = "save" /\ ~last.ok /\ last.env # ""
    /\ doc.is_open_
    /\ hist.prev.op = "add_relationship"

\* the positions of the w:p children of a body, in document order
RECURSIVE ParagraphsOf(_, _)
ParagraphsOf(body, k) ==
    IF k > Len(body) THEN <<>>
    ELSE (IF body[k] = "w:p" THEN <<k>> ELSE <<>>) \o ParagraphsOf(body, k + 1)

\* C37: traversing doc.paragraphs() with has_next()/next() visits each w:p
\* child of the document body exactly once, in document order, and visits no
\* other element, then ends; on a closed document the traversal is empty
C37_ParagraphTraversal ==
    /\ ParagraphLoop(BodyOf(doc), Paragraph_set_parent(BodyOf(doc)))
          = ParagraphsOf(BodyOf(doc), 1)
    /\ ~doc.is_open_ => ParagraphLoop(BodyOf(doc), Paragraph_set_parent(BodyOf(doc))) = <<>>

\* the children named name of the body of the Document opened on path
SourceList(F, path, name) ==
    SelectSeq(BodyOf(open(DocumentImpl, F, path)), LAMBDA e : e.tag = name)

\* body with the elements of list put in, in their order, before the place at
\* (at the end when at is 0)
InsertedInOrder(body, list, at) ==
    IF at = 0 THEN body \o list
    ELSE SubSeq(body, 1, at - 1) \o list \o SubSeq(body, at, Len(body))

InsertedName(c) == IF c.op = "insert_paragraphs" THEN "w:p" ELSE "w:tbl"

\* C38: insert_paragraphs(source, position) and insert_tables(source,
\* position) insert the copied elements in the order they have in the source
\* body, for position -1 (append at the end) and for every position >= 0 that
\* names an existing element of the target
C38_InsertedInSourceOrder ==
    [][(/\ last'.op \in {"insert_paragraphs", "insert_tables"}
        /\ \/ last'.position = -1
           \/ InsertPos(BodyOf(doc), InsertedName(last'), last'.position) # 0)
       => BodyOf(doc') =
            InsertedInOrder(BodyOf(doc),
                            SourceList(fs, last'.path, InsertedName(last')),
                            InsertPos(BodyOf(doc), InsertedName(last'),
                                      last'.position))]_vars

\* the w:color children of the w:rPr children of a run
ColorEls(run) ==
    IF run.tag = "" THEN <<>>
    ELSE LET props == ChildrenNamed(run.a, "w:rPr")
         IN IF props = <<>> THEN <<>> ELSE ChildrenNamed(props[1].a, "w:color")

\* C39: for every sequence of set_color calls on one run, the run ends with a
\* single w:color element that carries exactly one w:val attribute, whose
\* value is the colour passed to the last call
C39_OneColorLastWins ==
    [][(last'.op = "set_color" /\ last'.ok)
       => ColorEls(Run_set_parent(BodyOf(doc')[last'.position]))
            = <<El("w:color", << <<"w:val", last'.color>> >>)>>]_vars

====
